---- MODULE Spec2Model ----
(***************************************************************************)
(* The DressUp store API: the order workflow (createOrder, cancelOrder, the *)
(* admin status updates, the shipping webhook, the order read routes), the *)
(* cart, wishlist, address, review and auth handlers, over the product,    *)
(* cart, wishlist, user and order collections.                             *)
(*                                                                         *)
(* A request handler yields at every await.  createOrder and cancelOrder   *)
(* and the cart and wishlist handlers are therefore modelled one database  *)
(* operation per step (the slot's pc is the await it is parked on); the    *)
(* synchronous code that follows a database operation belongs to the same  *)
(* step.  Handlers whose effect is one write are one step.  Money is       *)
(* counted in cents.                                                       *)
(***************************************************************************)
EXTENDS Integers, Sequences, FiniteSets, TLC

\* ------------------------------------------------------------------ bounds
InitStock == 2      \* stock of every product in the initial state
MaxQty    == 2      \* largest quantity of a cart line in the initial state
MaxOrders == 2      \* orders persisted in one behaviour
MaxRequests == 3    \* requests received in one behaviour
MaxTasks  == 2      \* detached stock updates pending at once
MaxWishes == 2      \* items added to one wishlist in one behaviour

\* ------------------------------------------------------- program constants
MaxAddresses  == 4        \* createOrder: user.addresses.length >= 4
MaxTaxPrice   == 10000    \* orderSchema.taxPrice.max, in cents
TaxDivisor    == 10       \* taxPrice = itemsPrice * 0.1
ShippingPrice == 599      \* shippingPrice = 5.99, in cents

\* ------------------------------------------------------------- the world
Customers == {"u1", "u2"}
Users     == Customers \cup {"admin"}
NoUser    == "anonymous"
Role(u)   == IF u = "admin" THEN "admin" ELSE "user"

Products  == {"p1", "p2"}
Price(p)  == IF p = "p1" THEN 1000 ELSE 60000

Reqs      == {"r1", "r2"}

Secret    == "s3cret"
Secrets   == {Secret, "wrong"}

NoTracking      == "none"
TrackingNumbers == {"TN1"}
\* The statuses a webhook request may carry: those of the carrier and one the
\* schema does not know.
TrackingStatus  == {"label_created", "in_transit", "out_for_delivery",
                    "delivered", "exception", "unknown"}
\* orderSchema.orderStatus.enum and orderSchema.trackingInfo.status.enum
OrderStatus        == {"Processing", "Shipped", "Delivered", "Cancelled"}
TrackingStatusEnum == {"label_created", "in_transit", "out_for_delivery",
                       "delivered", "exception"}

VARIABLES
  products,   \* Product collection: [exists, stock] per product id
  carts,      \* Cart collection: one document per user, or none
  addresses,  \* User.addresses per user
  orders,     \* Order collection, in insertion order; an order's id is its index
  req,        \* the in-flight createOrder / cancelOrder requests
  tasks,      \* updateStock calls started by admin updateOrder and not awaited
  serverUp,   \* FALSE once an unhandled rejection has closed the server
  nreq,       \* the number of requests received so far
  resp,       \* the response sent last: who answered, and the status
  wishlists,  \* Wishlist collection: one document per user, or none
  reviews,    \* Product.reviews, numOfReviews and ratings per product id
  dupCarts,   \* per user, the Cart documents besides the one Cart.findOne returns
  accounts,   \* User collection of the auth handlers: [exists, role] per e-mail
  tokens      \* the tokens sendTokenResponse has issued: by which handler, for whom

vars == <<products, carts, addresses, orders, req, tasks, serverUp, nreq, resp,
          wishlists, reviews, dupCarts, accounts, tokens>>

\* ------------------------------------------------------------ documents
Line(p, q) == [product |-> p, quantity |-> q, size |-> "M", color |-> "blue",
               price |-> Price(p)]

RECURSIVE SumLines(_)
SumLines(items) ==
  IF items = <<>> THEN 0
  ELSE Head(items).price * Head(items).quantity + SumLines(Tail(items))

\* A cart document; v is its version key (__v).
NoCart      == [exists |-> FALSE, items |-> <<>>, totalPrice |-> 0, v |-> 0]
Cart(items) == [exists |-> TRUE, items |-> items, totalPrice |-> SumLines(items),
                v |-> 0]
EmptiedCart == [exists |-> TRUE, items |-> <<>>, totalPrice |-> 0, v |-> 0]

\* A wishlist document and its items; v is its version key, n the number of
\* items pushed so far (an item's _id is its rank among them).
Wish(id, p, size) == [id |-> id, product |-> p, size |-> size, color |-> "blue"]
NoWishlist      == [exists |-> FALSE, items |-> <<>>, v |-> 0, n |-> 0]
Wishlist(items) == [exists |-> TRUE, items |-> items, v |-> 0, n |-> Len(items)]

\* The review fields of a product nobody has reviewed.
NoReviews == [reviews |-> <<>>, numOfReviews |-> 0, ratings |-> 0]

Address(street, isDefault) == [street |-> street, isDefault |-> isDefault]

\* A request slot: the handler, the await it is parked on and its locals.
\* Of createOrder also: how the lookup for the confirmation email ended (mail)
\* and the price fields of the request body (claimed).
\* Of the cart and wishlist handlers: the product, size and quantity asked
\* for, the stock read, the cart document the request holds (doc) as loaded
\* (cart) and as changed in memory (items, at index i, sent as kind), the
\* wishlist as loaded (wishlist) and the item to move (wi), and how the two
\* saves of moveToCart have ended (csave, wsave).
NoPrices == [itemsPrice |-> 0, taxPrice |-> 0, shippingPrice |-> 0, totalPrice |-> 0]

Idle == [op |-> "idle", pc |-> "idle", user |-> NoUser, items |-> <<>>,
         oid |-> 0, i |-> 0, val |-> 0, ship |-> "", pay |-> "",
         tn |-> NoTracking, valid |-> TRUE, log |-> <<>>,
         product |-> "", size |-> "", qty |-> 0, stock |-> 0,
         cart |-> NoCart, doc |-> 0, kind |-> "", wishlist |-> NoWishlist,
         wi |-> 0, csave |-> "", wsave |-> "", mail |-> "", claimed |-> NoPrices]

\* A response: the handler of the route, who sent it (the handler itself or a
\* middleware in front of it) and the status.
Sent(op, by, status) == [op |-> op, by |-> by, status |-> status]
Resp(op, status) == Sent(op, op, status)

IsError(status) == status >= 400

\* An e-mail address as a request carries it: local part and domain, written
\* in upper case or not, padded with blanks or not.
Email(local, domain, upper, padded) ==
  [local |-> local, domain |-> domain, upper |-> upper, padded |-> padded]

\* email.trim().toLowerCase()
TrimLower(email) == [email EXCEPT !.upper = FALSE, !.padded = FALSE]

Locals  == {"admin", "kid"}
Domains == {"gmail.com", "example.org"}

\* The e-mail addresses requests carry, and those a user document can hold.
Emails        == {Email(l, d, u, p) : l \in Locals, d \in Domains,
                                      u \in BOOLEAN, p \in BOOLEAN}
AccountEmails == {e \in Emails : ~e.padded}

\* A user document of the auth handlers, and none.
NoAccount == [exists |-> FALSE, role |-> ""]
Account(role) == [exists |-> TRUE, role |-> role]

\* Carts the initial states draw from.  A cart as addToCart leaves it: lines
\* of distinct products, totalPrice their sum.
OneLineCart == Cart(<<Line("p1", 1)>>)
TwoLineCart == Cart(<<Line("p1", MaxQty), Line("p2", 1)>>)
FullCart    == Cart(<<Line("p1", MaxQty)>>)
DearCart    == Cart(<<Line("p2", MaxQty)>>)

\* The initial state: every product in stock, the customers' carts drawn from
\* carts1 and carts2, every customer with three saved addresses (one below
\* the limit), the first customer's wishlist drawn from wishes1, no order, no
\* request, no review.
InitOf(carts1, carts2, wishes1) ==
  /\ products = [p \in Products |-> [exists |-> TRUE, stock |-> InitStock]]
  /\ \E c1 \in carts1, c2 \in carts2 :
       carts = [u \in Users |-> IF u = "u1" THEN c1 ELSE IF u = "u2" THEN c2 ELSE NoCart]
  /\ addresses = [u \in Users |->
                    IF u \in Customers
                    THEN <<Address("home", TRUE), Address("work", FALSE),
                           Address("school", FALSE)>>
                    ELSE <<>>]
  /\ orders = <<>>
  /\ req = [r \in Reqs |-> Idle]
  /\ tasks = <<>>
  /\ serverUp = TRUE
  /\ nreq = 0
  /\ resp = Resp("none", 0)
  /\ \E w1 \in wishes1 :
       wishlists = [u \in Users |-> IF u = "u1" THEN w1 ELSE NoWishlist]
  /\ reviews = [p \in Products |-> NoReviews]
  /\ dupCarts = [u \in Users |-> <<>>]
  /\ accounts = [e \in AccountEmails |-> NoAccount]
  /\ tokens = {}

\* The initial state without wishlists.
InitWith(carts1, carts2) == InitOf(carts1, carts2, {NoWishlist})

\* ------------------------------------------------------------ middleware
\* protect: a request without an authenticated user is answered 401.
Protect(u) == IF u \in Users THEN 0 ELSE 401

\* authorize('admin'): a user of another role is answered 403.
Authorize(u) == IF Role(u) = "admin" THEN 0 ELSE 403

\* The middleware in front of a handler: router.use(protect) and, on the admin
\* routes, authorize('admin').  Pass when the request reaches the handler,
\* else the response of the middleware that ended it.
Pass == Resp("pass", 0)

Gate(op, u, adminOnly) ==
  IF Protect(u) # 0 THEN Sent(op, "protect", Protect(u))
  ELSE IF adminOnly /\ Authorize(u) # 0 THEN Sent(op, "authorize", Authorize(u))
  ELSE Pass

\* verifyWebhook: the x-webhook-secret header must be the configured secret.
VerifyWebhook(secret) == IF secret # Secret THEN 401 ELSE 0

\* ------------------------------------------------------------- helpers
\* No request is in flight.
AllIdle == \A r \in Reqs : req[r] = Idle

\* The server accepts one more request.
Accept ==
  /\ serverUp
  /\ nreq < MaxRequests
  /\ nreq' = nreq + 1

Respond(r, status) ==
  /\ resp' = Resp(req[r].op, status)
  /\ req' = [req EXCEPT ![r] = Idle]

Park(r, locals) == req' = [req EXCEPT ![r] = locals]

InFlight(op) == Cardinality({r \in Reqs : req[r].op = op})

\* ---------------------------------------------------------- createOrder
NoAddress == [street |-> "", saveAddress |-> FALSE]

\* createOrder, address selection: the shipping address, whether the address
\* is to be saved to the profile, or the status the request ends with.
SelectShipping(addrs, body) ==
  IF body.useSavedAddress THEN
    IF body.addressId \in DOMAIN addrs
    THEN [status |-> 0, ship |-> addrs[body.addressId].street, save |-> FALSE]
    ELSE [status |-> 404, ship |-> "", save |-> FALSE]
  ELSE IF body.newAddress # NoAddress THEN
    IF body.newAddress.street = ""
    THEN [status |-> 400, ship |-> "", save |-> FALSE]
    ELSE IF body.newAddress.saveAddress /\ Len(addrs) >= MaxAddresses
    THEN [status |-> 400, ship |-> "", save |-> FALSE]
    ELSE [status |-> 0, ship |-> body.newAddress.street,
          save |-> body.newAddress.saveAddress]
  ELSE
    LET defaults == {i \in DOMAIN addrs : addrs[i].isDefault} IN
    IF defaults = {}
    THEN [status |-> 400, ship |-> "", save |-> FALSE]
    ELSE [status |-> 0,
          ship |-> addrs[CHOOSE i \in defaults : \A j \in defaults : i <= j].street,
          save |-> FALSE]

\* createOrder, validation of shipping and payment info.
ValidateInfo(ship, pay) == IF ship = "" \/ pay = "" THEN 400 ELSE 0

\* createOrder, after the address is settled: validate, then go on to the cart.
AfterAddress(r, locals) ==
  IF ValidateInfo(locals.ship, locals.pay) # 0
  THEN Respond(r, ValidateInfo(locals.ship, locals.pay))
  ELSE /\ Park(r, [locals EXCEPT !.pc = "cart"])
       /\ UNCHANGED resp

\* The price fields of req.body: the handler destructures none of them, they
\* stay on the request.
ClaimedPrices(body) ==
  IF "totalPrice" \in DOMAIN body
  THEN [itemsPrice |-> body.itemsPrice, taxPrice |-> body.taxPrice,
        shippingPrice |-> body.shippingPrice, totalPrice |-> body.totalPrice]
  ELSE NoPrices

\* POST /api/v1/orders: protect, then User.findById and the address selection.
CreateOrderBegin(r, u, body) ==
  /\ Accept
  /\ req[r] = Idle
  /\ Len(orders) + InFlight("createOrder") < MaxOrders
  /\ UNCHANGED <<products, carts, addresses, orders, tasks, serverUp>>
  /\ UNCHANGED <<wishlists, reviews, dupCarts>>
  /\ UNCHANGED <<accounts, tokens>>
  /\ IF Gate("createOrder", u, FALSE) # Pass
     THEN /\ resp' = Gate("createOrder", u, FALSE)
          /\ UNCHANGED req
     ELSE LET sel == SelectShipping(addresses[u], body)
              locals == [Idle EXCEPT !.op = "createOrder", !.user = u,
                                     !.ship = sel.ship, !.pay = body.paymentInfo,
                                     !.tn = body.trackingNumber,
                                     !.claimed = ClaimedPrices(body)]
          IN  IF sel.status # 0
              THEN /\ resp' = Resp("createOrder", sel.status)
                   /\ UNCHANGED req
              ELSE IF sel.save
              THEN /\ Park(r, [locals EXCEPT !.pc = "saveAddr"])
                   /\ UNCHANGED resp
              ELSE IF ValidateInfo(locals.ship, locals.pay) # 0
              THEN /\ resp' = Resp("createOrder",
                                   ValidateInfo(locals.ship, locals.pay))
                   /\ UNCHANGED req
              ELSE /\ Park(r, [locals EXCEPT !.pc = "cart"])
                   /\ UNCHANGED resp

\* user.addresses.push(address); await user.save()
CreateOrderSaveAddress(r) ==
  /\ req[r].op = "createOrder" /\ req[r].pc = "saveAddr"
  /\ addresses' = [addresses EXCEPT
                     ![req[r].user] = Append(@, Address(req[r].ship, FALSE))]
  /\ AfterAddress(r, req[r])
  /\ UNCHANGED <<products, carts, orders, tasks, serverUp, nreq>>
  /\ UNCHANGED <<wishlists, reviews, dupCarts>>
  /\ UNCHANGED <<accounts, tokens>>

\* The status of the stock validation loop over the populated cart: 0 when
\* every line passes.
RECURSIVE CheckLines(_, _)
CheckLines(items, prods) ==
  IF items = <<>> THEN 0
  ELSE IF ~prods[Head(items).product].exists THEN 404
  ELSE IF prods[Head(items).product].stock < Head(items).quantity THEN 400
  ELSE CheckLines(Tail(items), prods)

CartCheck(cart, prods) ==
  IF ~cart.exists \/ cart.items = <<>> THEN 400 ELSE CheckLines(cart.items, prods)

\* Every line of the cart has its product and enough stock.
LinesInStock(items, prods) ==
  \A k \in DOMAIN items :
    /\ prods[items[k].product].exists
    /\ prods[items[k].product].stock >= items[k].quantity

\* The request skipping the stock decrement.
AfterPersistSkipStock == "clear"

\* What the request does after the order is persisted.
AfterPersist == "stockRead"
\* What the request does after the last stock decrement.
AfterStock == "clear"
\* What the request does after the cart is cleared.
AfterClear == "emailLookup"

\* Cart.findOne(...).populate('items.product') and the validation loop.
CreateOrderReadCart(r) ==
  /\ req[r].op = "createOrder" /\ req[r].pc = "cart"
  /\ UNCHANGED <<products, carts, addresses, orders, tasks, serverUp, nreq>>
  /\ UNCHANGED <<wishlists, reviews, dupCarts>>
  /\ UNCHANGED <<accounts, tokens>>
  /\ LET cart == carts[req[r].user]
         st == CartCheck(cart, products)
     IN  IF st # 0
         THEN Respond(r, st)
         ELSE /\ Park(r, [req[r] EXCEPT
                    !.pc = "create", !.items = cart.items,
                    !.log = <<[ev |-> "cart", n |-> Len(cart.items)],
                              [ev |-> "check",
                               n |-> IF LinesInStock(cart.items, products)
                                     THEN Len(cart.items) ELSE 0]>>])
              /\ UNCHANGED resp

ItemsPrice(items) == SumLines(items)
TaxPrice(items) == ItemsPrice(items) \div TaxDivisor
TotalPrice(items) == ItemsPrice(items) + TaxPrice(items) + ShippingPrice

\* The document Order.create is given.
NewOrder(u, items, ship, pay, tn) ==
  [user |-> u, orderItems |-> items, shippingInfo |-> ship, paymentInfo |-> pay,
   itemsPrice |-> ItemsPrice(items), taxPrice |-> TaxPrice(items),
   shippingPrice |-> ShippingPrice, totalPrice |-> TotalPrice(items),
   orderStatus |-> "Processing", trackingNumber |-> tn,
   trackingStatus |-> "label_created", deliveredAt |-> FALSE]

\* The schema validators that Order.create and order.save() run on the
\* document: the enums and taxPrice max.
ValidOrder(order) ==
  /\ order.taxPrice <= MaxTaxPrice
  /\ order.orderStatus \in OrderStatus
  /\ order.trackingStatus \in TrackingStatusEnum

\* An insert that skips an order the same user already has for the same items.
InsertedOnce(ords, order) ==
  IF \E k \in DOMAIN ords :
       ords[k].user = order.user /\ ords[k].orderItems = order.orderItems
  THEN ords ELSE Append(ords, order)

\* The Order collection after Order.create.
Inserted(ords, order) == Append(ords, order)

\* Order.create given the prices of the request body where it has them.
CreateOrderPersistTrusting(r) ==
  /\ req[r].op = "createOrder" /\ req[r].pc = "create"
  /\ UNCHANGED <<products, carts, addresses, tasks, serverUp, nreq>>
  /\ UNCHANGED <<wishlists, reviews, dupCarts>>
  /\ UNCHANGED <<accounts, tokens>>
  /\ LET order == NewOrder(req[r].user, req[r].items,
                           req[r].ship, req[r].pay, req[r].tn)
         asked == IF req[r].claimed = NoPrices THEN order
                  ELSE [order EXCEPT !.itemsPrice = req[r].claimed.itemsPrice,
                                     !.taxPrice = req[r].claimed.taxPrice,
                                     !.shippingPrice = req[r].claimed.shippingPrice,
                                     !.totalPrice = req[r].claimed.totalPrice]
     IN  IF ~ValidOrder(asked)
         THEN /\ Respond(r, 500)
              /\ UNCHANGED orders
         ELSE /\ orders' = Inserted(orders, asked)
              /\ Park(r, [req[r] EXCEPT
                     !.pc = AfterPersist, !.oid = Len(orders) + 1, !.i = 1,
                     !.log = Append(@, [ev |-> "persist", n |-> Len(orders) + 1])])
              /\ UNCHANGED resp

\* Order.create: the schema validators run (taxPrice max) and the order is
\* inserted.  A validation error is a thrown error (answered 500 here).
CreateOrderPersist(r) ==
  /\ req[r].op = "createOrder" /\ req[r].pc = "create"
  /\ UNCHANGED <<products, carts, addresses, tasks, serverUp, nreq>>
  /\ UNCHANGED <<wishlists, reviews, dupCarts>>
  /\ UNCHANGED <<accounts, tokens>>
  /\ IF ~ValidOrder(NewOrder(req[r].user, req[r].items,
                             req[r].ship, req[r].pay, req[r].tn))
     THEN /\ Respond(r, 500)
          /\ UNCHANGED orders
     ELSE /\ orders' = Inserted(orders, NewOrder(req[r].user, req[r].items,
                                                 req[r].ship, req[r].pay, req[r].tn))
          /\ Park(r, [req[r] EXCEPT
                 !.pc = AfterPersist, !.oid = Len(orders) + 1, !.i = 1,
                 !.log = Append(@, [ev |-> "persist", n |-> Len(orders) + 1])])
          /\ UNCHANGED resp

\* A decrement applied to the stock as it is at the write.
DecrementedStockAtomic(read, current, quantity) == current - quantity

\* updateStock: product.stock -= quantity on the document read before.
DecrementedStock(read, current, quantity) == read - quantity

\* A restore that puts back one unit whatever the quantity.
RestoredStockOne(read, current, quantity) == read + 1

\* restoreStock: product.stock += quantity on the document read before.
RestoredStock(read, current, quantity) == read + quantity

\* The request moves to the next item, or past the loop.
NextItem(r, loop, after) ==
  IF req[r].i < Len(req[r].items)
  THEN [req[r] EXCEPT !.i = @ + 1, !.pc = loop]
  ELSE [req[r] EXCEPT !.pc = after]

\* An updateStock that compensates when the product is gone: it marks the
\* order cancelled before the error is answered.
UpdateStockReadCompensating(r) ==
  /\ req[r].op = "createOrder" /\ req[r].pc = "stockRead"
  /\ UNCHANGED <<products, carts, addresses, tasks, serverUp, nreq>>
  /\ UNCHANGED <<wishlists, reviews, dupCarts>>
  /\ UNCHANGED <<accounts, tokens>>
  /\ LET p == req[r].items[req[r].i].product
     IN  IF ~products[p].exists
         THEN /\ Respond(r, 500)
              /\ orders' = [orders EXCEPT ![req[r].oid].orderStatus = "Cancelled"]
         ELSE /\ Park(r, [req[r] EXCEPT !.pc = "stockWrite",
                                        !.val = products[p].stock])
              /\ UNCHANGED <<resp, orders>>

\* updateStock, Product.findById: a missing product is null and reading its
\* stock throws, which asyncHandler hands to the error middleware.
UpdateStockRead(r) ==
  /\ req[r].op = "createOrder" /\ req[r].pc = "stockRead"
  /\ UNCHANGED <<products, carts, addresses, orders, tasks, serverUp, nreq>>
  /\ UNCHANGED <<wishlists, reviews, dupCarts>>
  /\ UNCHANGED <<accounts, tokens>>
  /\ LET p == req[r].items[req[r].i].product
     IN  IF ~products[p].exists
         THEN Respond(r, 500)
         ELSE /\ Park(r, [req[r] EXCEPT !.pc = "stockWrite",
                                        !.val = products[p].stock])
              /\ UNCHANGED resp

\* updateStock, product.save: sets stock to the value computed from the read.
\* Saving a document deleted in between writes nothing; depending on the
\* library version it throws or not.
UpdateStockWrite(r) ==
  /\ req[r].op = "createOrder" /\ req[r].pc = "stockWrite"
  /\ UNCHANGED <<carts, addresses, orders, tasks, serverUp, nreq>>
  /\ UNCHANGED <<wishlists, reviews, dupCarts>>
  /\ UNCHANGED <<accounts, tokens>>
  /\ LET it == req[r].items[req[r].i]
         p == it.product
         done == [NextItem(r, "stockRead", AfterStock) EXCEPT
                    !.log = Append(@, [ev |-> "stock", n |-> it.quantity])]
     IN  IF products[p].exists
         THEN /\ products' = [products EXCEPT ![p].stock =
                                DecrementedStock(req[r].val, @, it.quantity)]
              /\ Park(r, done)
              /\ UNCHANGED resp
         ELSE /\ UNCHANGED products
              /\ \E throws \in BOOLEAN :
                   IF throws THEN Respond(r, 500)
                   ELSE Park(r, done) /\ UNCHANGED resp

\* The cart document after Cart.findOneAndUpdate({ items: [], totalPrice: 0 }).
ClearedCart(cart) ==
  IF cart.exists THEN [cart EXCEPT !.items = <<>>, !.totalPrice = 0] ELSE cart

\* Cart.findOneAndUpdate: the cart is emptied.
CreateOrderClearCart(r) ==
  /\ req[r].op = "createOrder" /\ req[r].pc = "clear"
  /\ carts' = [carts EXCEPT ![req[r].user] = ClearedCart(@)]
  /\ Park(r, [req[r] EXCEPT !.pc = AfterClear,
                 !.log = Append(@, [ev |-> "clear", n |-> 0])])
  /\ UNCHANGED <<products, addresses, orders, tasks, serverUp, nreq, resp>>
  /\ UNCHANGED <<wishlists, reviews, dupCarts>>
  /\ UNCHANGED <<accounts, tokens>>

\* Every product of the items is still there (populate would leave null for
\* one that is gone, and formatting its line throws).
Populated(items, prods) == \A k \in DOMAIN items : prods[items[k].product].exists

\* Inside try: Order.findById(order._id).populate(...) and the formatting of
\* the order lines.  It throws when the order or a product of it is gone, or
\* when the database fails; the catch logs the error and the request goes on.
CreateOrderEmailLookup(r) ==
  /\ req[r].op = "createOrder" /\ req[r].pc = "emailLookup"
  /\ UNCHANGED <<products, carts, addresses, orders, tasks, serverUp, nreq, resp>>
  /\ UNCHANGED <<wishlists, reviews, dupCarts>>
  /\ UNCHANGED <<accounts, tokens>>
  /\ \E throws \in BOOLEAN :
       /\ ~Populated(req[r].items, products) => throws
       /\ Park(r, [req[r] EXCEPT !.pc = "email",
                                  !.mail = IF throws THEN "failed" ELSE "ready"])

\* A handler that answers 500 when the email could not be sent.
EmailStatusRethrow(mail, thrown) == IF mail = "failed" \/ thrown THEN 500 ELSE 201

\* The status createOrder answers after the try/catch around the email:
\* the catch swallows the error of the lookup and of sendEmail.
EmailStatus(mail, thrown) == 201

\* Inside try: await sendEmail(...) when the lookup succeeded, which may
\* throw; then, after the try/catch, res.status(201).
CreateOrderEmail(r) ==
  /\ req[r].op = "createOrder" /\ req[r].pc = "email"
  /\ \E thrown \in BOOLEAN :
       /\ req[r].mail = "failed" => ~thrown
       /\ Respond(r, EmailStatus(req[r].mail, thrown))
  /\ UNCHANGED <<products, carts, addresses, orders, tasks, serverUp, nreq>>
  /\ UNCHANGED <<wishlists, reviews, dupCarts>>
  /\ UNCHANGED <<accounts, tokens>>

\* ---------------------------------------------------------- cancelOrder
OrderIds == 1..MaxOrders

\* The checks without the one for an order already cancelled.
CancelCheckNoCancelled(order, u) ==
  IF order.user # u /\ Role(u) # "admin" THEN 401
  ELSE IF order.orderStatus = "Delivered" THEN 400
  ELSE 0

\* cancelOrder, the checks after Order.findById: the status the request ends
\* with, or 0 when the order may be cancelled.
CancelCheck(order, u) ==
  IF order.user # u /\ Role(u) # "admin" THEN 401
  ELSE IF order.orderStatus = "Delivered" THEN 400
  ELSE IF order.orderStatus = "Cancelled" THEN 400
  ELSE 0

\* A cancellation that also zeroes the order's total.
CancelledOrderRefunded(order) ==
  [order EXCEPT !.orderStatus = "Cancelled", !.totalPrice = 0]

\* The order after cancelOrder's order.save(): orderStatus is the one modified
\* path of the schema (cancelledAt is not a schema path and is not stored).
CancelledOrder(order) == [order EXCEPT !.orderStatus = "Cancelled"]

\* DELETE /api/v1/orders/:id: protect, Order.findById and the checks.
CancelOrderBegin(r, u, oid) ==
  /\ Accept
  /\ req[r] = Idle
  /\ UNCHANGED <<products, carts, addresses, orders, tasks, serverUp>>
  /\ UNCHANGED <<wishlists, reviews, dupCarts>>
  /\ UNCHANGED <<accounts, tokens>>
  /\ LET st == IF oid \notin DOMAIN orders THEN 404
               ELSE CancelCheck(orders[oid], u)
     IN  IF Gate("cancelOrder", u, FALSE) # Pass
         THEN /\ resp' = Gate("cancelOrder", u, FALSE)
              /\ UNCHANGED req
         ELSE IF st # 0
         THEN /\ resp' = Resp("cancelOrder", st)
              /\ UNCHANGED req
         ELSE /\ Park(r, [Idle EXCEPT !.op = "cancelOrder", !.user = u,
                             !.oid = oid, !.items = orders[oid].orderItems,
                             !.valid = ValidOrder(CancelledOrder(orders[oid])),
                             !.i = 1, !.pc = "restoreRead"])
              /\ UNCHANGED resp

\* restoreStock, Product.findById.
RestoreStockRead(r) ==
  /\ req[r].op = "cancelOrder" /\ req[r].pc = "restoreRead"
  /\ UNCHANGED <<products, carts, addresses, orders, tasks, serverUp, nreq>>
  /\ UNCHANGED <<wishlists, reviews, dupCarts>>
  /\ UNCHANGED <<accounts, tokens>>
  /\ LET p == req[r].items[req[r].i].product
     IN  IF ~products[p].exists
         THEN Respond(r, 500)
         ELSE /\ Park(r, [req[r] EXCEPT !.pc = "restoreWrite",
                                        !.val = products[p].stock])
              /\ UNCHANGED resp

\* restoreStock, product.save.
RestoreStockWrite(r) ==
  /\ req[r].op = "cancelOrder" /\ req[r].pc = "restoreWrite"
  /\ UNCHANGED <<carts, addresses, orders, tasks, serverUp, nreq>>
  /\ UNCHANGED <<wishlists, reviews, dupCarts>>
  /\ UNCHANGED <<accounts, tokens>>
  /\ LET it == req[r].items[req[r].i]
         p == it.product
         done == NextItem(r, "restoreRead", "save")
     IN  IF products[p].exists
         THEN /\ products' = [products EXCEPT ![p].stock =
                                RestoredStock(req[r].val, @, it.quantity)]
              /\ Park(r, done)
              /\ UNCHANGED resp
         ELSE /\ UNCHANGED products
              /\ \E throws \in BOOLEAN :
                   IF throws THEN Respond(r, 500)
                   ELSE Park(r, done) /\ UNCHANGED resp

\* order.save(), the cancellation email inside try/catch, and the 200.  The
\* save validates the document as it was loaded; a validation error is thrown
\* and nothing is written.
CancelOrderSave(r) ==
  /\ req[r].op = "cancelOrder" /\ req[r].pc = "save"
  /\ UNCHANGED <<products, carts, addresses, tasks, serverUp, nreq>>
  /\ UNCHANGED <<wishlists, reviews, dupCarts>>
  /\ UNCHANGED <<accounts, tokens>>
  /\ IF req[r].valid
     THEN /\ orders' = [orders EXCEPT ![req[r].oid] = CancelledOrder(@)]
          /\ Respond(r, 200)
     ELSE /\ Respond(r, 500)
          /\ UNCHANGED orders

\* ------------------------------------------------------- admin handlers
\* The paths of orderSchema (createdAt and updatedAt come from timestamps).
\* The schema is strict: a value a handler sets on the document under another
\* name, as deliveredAt and cancelledAt are, is not among the modified paths
\* and save() does not store it.
OrderPaths == {"user", "orderItems", "shippingInfo", "paymentInfo", "itemsPrice",
               "taxPrice", "shippingPrice", "totalPrice", "orderStatus",
               "trackingInfo", "createdAt", "updatedAt"}

\* The stored deliveredAt after order.deliveredAt = Date.now() and save().
DeliveredAt(stored) == IF "deliveredAt" \in OrderPaths THEN TRUE ELSE stored

\* The order after updateOrderToDelivered.
DeliveredOrder(order) ==
  [order EXCEPT !.orderStatus = "Delivered", !.deliveredAt = DeliveredAt(@)]

\* PUT /api/v1/orders/:id/deliver
UpdateOrderToDelivered(u, oid) ==
  /\ Accept
  /\ UNCHANGED <<products, carts, addresses, req, tasks, serverUp>>
  /\ UNCHANGED <<wishlists, reviews, dupCarts>>
  /\ UNCHANGED <<accounts, tokens>>
  /\ IF Gate("updateOrderToDelivered", u, TRUE) # Pass
     THEN resp' = Gate("updateOrderToDelivered", u, TRUE) /\ UNCHANGED orders
     ELSE IF oid \notin DOMAIN orders
     THEN resp' = Resp("updateOrderToDelivered", 404) /\ UNCHANGED orders
     ELSE IF ~ValidOrder(DeliveredOrder(orders[oid]))
     THEN resp' = Resp("updateOrderToDelivered", 500) /\ UNCHANGED orders
     ELSE /\ orders' = [orders EXCEPT ![oid] = DeliveredOrder(@)]
          /\ resp' = Resp("updateOrderToDelivered", 200)

\* admin updateOrder, the check after Order.findById.
UpdateOrderCheck(order) == IF order.orderStatus = "Delivered" THEN 400 ELSE 0

\* The order after admin updateOrder with req.body.status = status.
UpdatedOrder(order, status) ==
  [order EXCEPT !.orderStatus = status,
                !.deliveredAt = IF status = "Delivered" THEN DeliveredAt(@) ELSE @]

\* The updateStock calls admin updateOrder starts in forEach(async ...) and
\* does not await: one per order item, each parked on its Product.findById.
RECURSIVE StockTasks(_)
StockTasks(items) ==
  IF items = <<>> THEN <<>>
  ELSE <<[product |-> Head(items).product, quantity |-> Head(items).quantity,
          pc |-> "read", val |-> 0]>> \o StockTasks(Tail(items))

\* PUT /api/v1/admin/orders/:id.  A Shipped update arrives when its detached
\* stock updates fit among those still pending (MaxTasks).
AdminUpdateOrder(u, oid, status) ==
  /\ Accept
  /\ (status = "Shipped" /\ oid \in DOMAIN orders)
       => Len(tasks) + Len(orders[oid].orderItems) <= MaxTasks
  /\ UNCHANGED <<products, carts, addresses, req, serverUp>>
  /\ UNCHANGED <<wishlists, reviews, dupCarts>>
  /\ UNCHANGED <<accounts, tokens>>
  /\ IF Gate("updateOrder", u, TRUE) # Pass
     THEN resp' = Gate("updateOrder", u, TRUE) /\ UNCHANGED <<orders, tasks>>
     ELSE IF oid \notin DOMAIN orders
     THEN resp' = Resp("updateOrder", 404) /\ UNCHANGED <<orders, tasks>>
     ELSE IF UpdateOrderCheck(orders[oid]) # 0
     THEN /\ resp' = Resp("updateOrder", UpdateOrderCheck(orders[oid]))
          /\ UNCHANGED <<orders, tasks>>
     ELSE /\ tasks' = IF status = "Shipped"
                      THEN tasks \o StockTasks(orders[oid].orderItems)
                      ELSE tasks
          /\ orders' = [orders EXCEPT ![oid] = UpdatedOrder(@, status)]
          /\ resp' = Resp("updateOrder", 200)

Remove(seq, k) == SubSeq(seq, 1, k - 1) \o SubSeq(seq, k + 1, Len(seq))

\* A detached updateStock, Product.findById.  A missing product makes the
\* promise reject with nobody to catch it: the unhandledRejection handler
\* closes the server.
TaskRead(k) ==
  /\ k \in DOMAIN tasks /\ tasks[k].pc = "read"
  /\ UNCHANGED <<products, carts, addresses, orders, req, nreq, resp>>
  /\ UNCHANGED <<wishlists, reviews, dupCarts>>
  /\ UNCHANGED <<accounts, tokens>>
  /\ IF ~products[tasks[k].product].exists
     THEN /\ tasks' = Remove(tasks, k)
          /\ serverUp' = FALSE
     ELSE /\ tasks' = [tasks EXCEPT ![k].pc = "write",
                                    ![k].val = products[tasks[k].product].stock]
          /\ UNCHANGED serverUp

\* A detached updateStock, product.save.
TaskWrite(k) ==
  /\ k \in DOMAIN tasks /\ tasks[k].pc = "write"
  /\ tasks' = Remove(tasks, k)
  /\ UNCHANGED <<carts, addresses, orders, req, nreq, resp>>
  /\ UNCHANGED <<wishlists, reviews, dupCarts>>
  /\ UNCHANGED <<accounts, tokens>>
  /\ IF products[tasks[k].product].exists
     THEN /\ products' = [products EXCEPT ![tasks[k].product].stock =
                            DecrementedStock(tasks[k].val, @, tasks[k].quantity)]
          /\ UNCHANGED serverUp
     ELSE /\ UNCHANGED products
          /\ \E throws \in BOOLEAN : serverUp' = ~throws

\* SelectSeq(items, keep) for a test that needs a parameter.
RECURSIVE Without(_, _)
Without(items, p) ==
  IF items = <<>> THEN <<>>
  ELSE (IF Head(items).product = p THEN <<>> ELSE <<Head(items)>>)
       \o Without(Tail(items), p)

\* productSchema.pre('remove'): Wishlist.updateMany pulls the product from
\* every wishlist that holds it.
PulledFromWishlists(p) ==
  [u \in Users |-> [wishlists[u] EXCEPT !.items = Without(@, p)]]

\* DELETE /api/v1/admin/products/:id: product.remove(), whose hook cleans
\* the wishlists.
DeleteProduct(u, p) ==
  /\ Accept
  /\ UNCHANGED <<carts, addresses, orders, req, tasks, serverUp>>
  /\ UNCHANGED <<reviews, dupCarts>>
  /\ UNCHANGED <<accounts, tokens>>
  /\ IF Gate("deleteProduct", u, TRUE) # Pass
     THEN resp' = Gate("deleteProduct", u, TRUE) /\ UNCHANGED <<products, wishlists>>
     ELSE IF ~products[p].exists
     THEN resp' = Resp("deleteProduct", 404) /\ UNCHANGED <<products, wishlists>>
     ELSE /\ products' = [products EXCEPT ![p].exists = FALSE]
          /\ wishlists' = PulledFromWishlists(p)
          /\ resp' = Resp("deleteProduct", 200)

\* ------------------------------------------------------ shipping webhook
\* mapTrackingStatusToOrderStatus
MapTrackingStatusToOrderStatus(trackingStatus) ==
  CASE trackingStatus = "label_created"    -> "Processing"
    [] trackingStatus = "in_transit"       -> "Shipped"
    [] trackingStatus = "out_for_delivery" -> "Shipped"
    [] trackingStatus = "delivered"        -> "Delivered"
    [] trackingStatus = "exception"        -> "Cancelled"
    [] OTHER                               -> "Processing"

\* The order after the webhook's findOneAndUpdate $set.
TrackedOrder(order, status) ==
  [order EXCEPT !.trackingStatus = status,
                !.orderStatus = MapTrackingStatusToOrderStatus(status)]

\* The order Order.findOneAndUpdate matches: the first with the tracking
\* number, 0 when there is none.
FindByTracking(tn) ==
  LET hits == {k \in DOMAIN orders : orders[k].trackingNumber = tn} IN
  IF hits = {} THEN 0 ELSE CHOOSE k \in hits : \A j \in hits : k <= j

\* handleShippingWebhook: the secret is verified again, then the order with
\* the tracking number is updated.
HandleShippingWebhook(secret, tn, status) ==
  IF secret # Secret
  THEN resp' = Resp("handleShippingWebhook", 401) /\ UNCHANGED orders
  ELSE IF FindByTracking(tn) = 0
  THEN resp' = Resp("handleShippingWebhook", 404) /\ UNCHANGED orders
  ELSE /\ orders' = [orders EXCEPT ![FindByTracking(tn)] = TrackedOrder(@, status)]
       /\ resp' = Resp("handleShippingWebhook", 200)

\* POST /api/v1/orders/webhook/shipping on the orders router:
\* router.use(protect), then verifyWebhook, then handleShippingWebhook.
PostShippingWebhook(u, secret, tn, status) ==
  /\ Accept
  /\ UNCHANGED <<products, carts, addresses, req, tasks, serverUp>>
  /\ UNCHANGED <<wishlists, reviews, dupCarts>>
  /\ UNCHANGED <<accounts, tokens>>
  /\ IF Gate("handleShippingWebhook", u, FALSE) # Pass
     THEN resp' = Gate("handleShippingWebhook", u, FALSE) /\ UNCHANGED orders
     ELSE IF VerifyWebhook(secret) # 0
     THEN /\ resp' = Sent("handleShippingWebhook", "verifyWebhook",
                          VerifyWebhook(secret))
          /\ UNCHANGED orders
     ELSE HandleShippingWebhook(secret, tn, status)

\* The quantity of product p over the items.
RECURSIVE QuantityOf(_, _)
QuantityOf(items, p) ==
  IF items = <<>> THEN 0
  ELSE (IF Head(items).product = p THEN Head(items).quantity ELSE 0)
       + QuantityOf(Tail(items), p)

\* ------------------------------------------------------------ the reads
\* The read check without the ownership test.
ReadCheckNoOwner(u, oid) ==
  IF oid \notin DOMAIN orders THEN 404
  ELSE 200

\* getOrder and generateOrderPdf: the owner or an admin.
ReadCheck(u, oid) ==
  IF oid \notin DOMAIN orders THEN 404
  ELSE IF orders[oid].user # u /\ Role(u) # "admin" THEN 401
  ELSE 200

\* getOrderTracking: Order.findOne({ _id, user: req.user.id }).
TrackingCheck(u, oid) ==
  IF oid \notin DOMAIN orders \/ orders[oid].user # u THEN 404
  ELSE 200

\* A route that reads an order: protect, then the handler's answer.
Read(op, u, status) ==
  /\ Accept
  /\ resp' = IF Gate(op, u, FALSE) # Pass THEN Gate(op, u, FALSE) ELSE Resp(op, status)
  /\ UNCHANGED <<products, carts, addresses, orders, req, tasks, serverUp>>
  /\ UNCHANGED <<wishlists, reviews, dupCarts>>
  /\ UNCHANGED <<accounts, tokens>>

\* GET /api/v1/orders/:id
GetOrder(u, oid) == Read("getOrder", u, ReadCheck(u, oid))

\* GET /api/v1/orders/:id/pdf
GenerateOrderPdf(u, oid) == Read("generateOrderPdf", u, ReadCheck(u, oid))

\* GET /api/v1/orders/:id/tracking
GetOrderTracking(u, oid) == Read("getOrderTracking", u, TrackingCheck(u, oid))

\* -------------------------------------------------------- cart handlers
\* product.size of every product, and the sizes and quantities a request may
\* carry (req.body is not validated before the handler).
ProductSizes == {"M"}
Sizes        == {"M", "XL"}
Quantities   == -1..MaxQty

LineOf(p, size, q) == [Line(p, q) EXCEPT !.size = size]

\* items.findIndex on product, size and color: the first match, 0 for none.
IndexOf(items, p, size) ==
  LET hits == {k \in DOMAIN items : /\ items[k].product = p
                                     /\ items[k].size = size
                                     /\ items[k].color = "blue"}
  IN  IF hits = {} THEN 0 ELSE CHOOSE k \in hits : \A j \in hits : k <= j

\* The checks after Product.findById: the product exists and its stock covers
\* the quantity of the request.
StockCheck(prod, quantity) ==
  IF ~prod.exists THEN 404
  ELSE IF prod.stock < quantity THEN 400
  ELSE 0

\* The cart items after the request's line is merged in: the quantity is
\* added to the line of the same product, size and color, else a line with
\* the product's price is pushed.
Added(items, p, size, quantity) ==
  IF IndexOf(items, p, size) # 0
  THEN [items EXCEPT ![IndexOf(items, p, size)].quantity = @ + quantity]
  ELSE Append(items, LineOf(p, size, quantity))

\* How the change reaches the database: a push is sent as $push, a changed
\* quantity as a $set of the line's position, a splice as a $set of the whole
\* array; nothing is sent for an array left as loaded.
AddKind(items, p, size, quantity) ==
  IF Added(items, p, size, quantity) = items THEN "none"
  ELSE IF IndexOf(items, p, size) # 0 THEN "set"
  ELSE "push"

\* The cart document the request works on: the one Cart.findOne returns
\* (doc 0) or one more the request has created itself.
CartDoc(u, d) == IF d = 0 THEN carts[u] ELSE dupCarts[u][d]

\* save() of a document changed at an array position or by a whole-array $set
\* carries the version it loaded; it throws when the stored version differs.
VersionError(current, loaded, kind) ==
  kind \in {"set", "splice"} /\ current.v # loaded.v

\* The validators the Cart schema runs on the items at save(): the handlers
\* rely on none and handle no validation error, so save() rejects no array.
CartValidationError(items) == FALSE

\* The array save() leaves in the database.
SavedItems(current, items, i, kind) ==
  CASE kind = "push"   -> Append(current, items[Len(items)])
    [] kind = "set"    -> IF i \in DOMAIN current
                          THEN [current EXCEPT ![i].quantity = items[i].quantity]
                          ELSE current
    [] kind = "splice" -> items
    [] OTHER           -> current

\* The cart document after cart.save(): the array change, totalPrice as
\* recomputed from the in-memory items (when it differs from the loaded
\* one), and the version incremented by a push or a whole-array $set.
SavedCart(current, loaded, items, i, kind) ==
  [current EXCEPT !.items = SavedItems(@, items, i, kind),
                  !.totalPrice = IF SumLines(items) # loaded.totalPrice
                                 THEN SumLines(items) ELSE @,
                  !.v = IF kind \in {"push", "splice"} THEN @ + 1 ELSE @]

\* The Cart collection of user u after document d is replaced.
WithCartDoc(u, d, cart) ==
  IF d = 0
  THEN <<[carts EXCEPT ![u] = cart], dupCarts>>
  ELSE <<carts, [dupCarts EXCEPT ![u][d] = cart]>>

\* POST /api/v1/cart: Product.findById, the stock check, the size check.
AddToCartBegin(r, u, p, quantity, size) ==
  /\ Accept
  /\ req[r] = Idle
  /\ UNCHANGED <<products, carts, addresses, orders, tasks, serverUp>>
  /\ UNCHANGED <<wishlists, reviews, dupCarts>>
  /\ UNCHANGED <<accounts, tokens>>
  /\ IF StockCheck(products[p], quantity) # 0
     THEN /\ resp' = Resp("addToCart", StockCheck(products[p], quantity))
          /\ UNCHANGED req
     ELSE IF size \notin ProductSizes
     THEN /\ resp' = Resp("addToCart", 400)
          /\ UNCHANGED req
     ELSE /\ Park(r, [Idle EXCEPT !.op = "addToCart", !.pc = "findCart",
                         !.user = u, !.product = p, !.size = size,
                         !.qty = quantity, !.stock = products[p].stock])
          /\ UNCHANGED resp

\* The request holding cart document d as loaded, with its line merged in and
\* totalPrice recomputed, about to save.
WithCart(locals, cart, d) ==
  [locals EXCEPT
     !.pc = "save", !.cart = cart, !.doc = d,
     !.items = Added(cart.items, locals.product, locals.size, locals.qty),
     !.i = IndexOf(cart.items, locals.product, locals.size),
     !.kind = AddKind(cart.items, locals.product, locals.size, locals.qty)]

\* addToCart and moveToCart, Cart.findOne({ user }).
FindCart(r) ==
  /\ req[r].op \in {"addToCart", "moveToCart"} /\ req[r].pc = "findCart"
  /\ UNCHANGED <<products, carts, addresses, orders, tasks, serverUp, nreq, resp>>
  /\ UNCHANGED <<wishlists, reviews, dupCarts>>
  /\ UNCHANGED <<accounts, tokens>>
  /\ IF carts[req[r].user].exists
     THEN Park(r, WithCart(req[r], carts[req[r].user], 0))
     ELSE Park(r, [req[r] EXCEPT !.pc = "createCart"])

\* addToCart and moveToCart, Cart.create({ user, items: [], totalPrice: 0 })
\* when Cart.findOne found none: a document is inserted, the user's first or,
\* when another request has inserted one since the findOne, one more.
CreateCart(r) ==
  /\ req[r].op \in {"addToCart", "moveToCart"} /\ req[r].pc = "createCart"
  /\ UNCHANGED <<products, addresses, orders, tasks, serverUp, nreq, resp>>
  /\ UNCHANGED <<wishlists, reviews>>
  /\ UNCHANGED <<accounts, tokens>>
  /\ LET u == req[r].user IN
     IF carts[u].exists
     THEN /\ dupCarts' = [dupCarts EXCEPT ![u] = Append(@, EmptiedCart)]
          /\ Park(r, WithCart(req[r], EmptiedCart, Len(dupCarts[u]) + 1))
          /\ UNCHANGED carts
     ELSE /\ carts' = [carts EXCEPT ![u] = EmptiedCart]
          /\ Park(r, WithCart(req[r], EmptiedCart, 0))
          /\ UNCHANGED dupCarts

\* addToCart, await cart.save() and the 200.
AddToCartSave(r) ==
  /\ req[r].op = "addToCart" /\ req[r].pc = "save"
  /\ UNCHANGED <<products, addresses, orders, tasks, serverUp, nreq>>
  /\ UNCHANGED <<wishlists, reviews>>
  /\ UNCHANGED <<accounts, tokens>>
  /\ LET u == req[r].user
         current == CartDoc(u, req[r].doc)
     IN  IF \/ CartValidationError(req[r].items)
            \/ VersionError(current, req[r].cart, req[r].kind)
         THEN /\ Respond(r, 500)
              /\ UNCHANGED <<carts, dupCarts>>
         ELSE /\ carts' = WithCartDoc(u, req[r].doc,
                                      SavedCart(current, req[r].cart, req[r].items,
                                                req[r].i, req[r].kind))[1]
              /\ dupCarts' = WithCartDoc(u, req[r].doc,
                                         SavedCart(current, req[r].cart, req[r].items,
                                                   req[r].i, req[r].kind))[2]
              /\ Respond(r, 200)

\* The checks of updateCartItem and removeFromCart after Cart.findOne: the
\* cart exists and holds the item (k is the item's position, 0 for an id the
\* cart does not hold).
CartItemCheck(cart, k) ==
  IF ~cart.exists THEN 404
  ELSE IF k \notin DOMAIN cart.items THEN 404
  ELSE 0

\* The cart after updateCartItem: the line's quantity replaced, totalPrice
\* recomputed, saved.
UpdatedCart(cart, k, quantity) ==
  SavedCart(cart, cart, [cart.items EXCEPT ![k].quantity = quantity], k,
            IF cart.items[k].quantity = quantity THEN "none" ELSE "set")

\* PUT /api/v1/cart/:itemId
UpdateCartItem(u, k, quantity) ==
  /\ Accept
  /\ UNCHANGED <<products, addresses, orders, req, tasks, serverUp>>
  /\ UNCHANGED <<wishlists, reviews, dupCarts>>
  /\ UNCHANGED <<accounts, tokens>>
  /\ LET st == IF CartItemCheck(carts[u], k) # 0 THEN CartItemCheck(carts[u], k)
               ELSE StockCheck(products[carts[u].items[k].product], quantity)
     IN  IF st # 0
         THEN resp' = Resp("updateCartItem", st) /\ UNCHANGED carts
         ELSE IF CartValidationError([carts[u].items EXCEPT ![k].quantity = quantity])
         THEN resp' = Resp("updateCartItem", 500) /\ UNCHANGED carts
         ELSE /\ carts' = [carts EXCEPT ![u] = UpdatedCart(@, k, quantity)]
              /\ resp' = Resp("updateCartItem", 200)

\* The cart after removeFromCart: the line spliced out, totalPrice
\* recomputed, saved.
CartWithout(cart, k) ==
  SavedCart(cart, cart, Remove(cart.items, k), 0, "splice")

\* DELETE /api/v1/cart/:itemId
RemoveFromCart(u, k) ==
  /\ Accept
  /\ UNCHANGED <<products, addresses, orders, req, tasks, serverUp>>
  /\ UNCHANGED <<wishlists, reviews, dupCarts>>
  /\ UNCHANGED <<accounts, tokens>>
  /\ IF CartItemCheck(carts[u], k) # 0
     THEN resp' = Resp("removeFromCart", CartItemCheck(carts[u], k)) /\ UNCHANGED carts
     ELSE /\ carts' = [carts EXCEPT ![u] = CartWithout(@, k)]
          /\ resp' = Resp("removeFromCart", 200)

\* A clearCart that empties the user's wishlist as well.
ClearCartAndWishlist(u) ==
  /\ Accept
  /\ UNCHANGED <<products, addresses, orders, req, tasks, serverUp>>
  /\ UNCHANGED <<reviews, dupCarts>>
  /\ UNCHANGED <<accounts, tokens>>
  /\ IF ~carts[u].exists
     THEN resp' = Resp("clearCart", 404) /\ UNCHANGED <<carts, wishlists>>
     ELSE /\ carts' = [carts EXCEPT ![u] = ClearedCart(@)]
          /\ wishlists' = [wishlists EXCEPT ![u].items = <<>>]
          /\ resp' = Resp("clearCart", 200)

\* DELETE /api/v1/cart: Cart.findOneAndUpdate({ items: [], totalPrice: 0 }).
ClearCart(u) ==
  /\ Accept
  /\ UNCHANGED <<products, addresses, orders, req, tasks, serverUp>>
  /\ UNCHANGED <<wishlists, reviews, dupCarts>>
  /\ UNCHANGED <<accounts, tokens>>
  /\ IF ~carts[u].exists
     THEN resp' = Resp("clearCart", 404) /\ UNCHANGED carts
     ELSE /\ carts' = [carts EXCEPT ![u] = ClearedCart(@)]
          /\ resp' = Resp("clearCart", 200)

\* ---------------------------------------------------- wishlist handlers
\* The sizes a wishlist request may carry: size is optional there.
WishSizes == {"M", "XL", ""}
WishIds   == 1..MaxWishes

\* wishlist.items.findIndex on the item's _id: the position, 0 for none.
WishIndex(items, id) ==
  IF \E k \in DOMAIN items : items[k].id = id
  THEN CHOOSE k \in DOMAIN items : items[k].id = id
  ELSE 0

\* addToWishlist, the checks: the product exists, the size, when given, is
\* one of the product's, and the wishlist does not hold the item yet.
AddToWishlistCheck(prod, wishlist, p, size) ==
  IF ~prod.exists THEN 404
  ELSE IF size # "" /\ size \notin ProductSizes THEN 400
  ELSE IF \E k \in DOMAIN wishlist.items :
            /\ wishlist.items[k].product = p
            /\ wishlist.items[k].size = size
            /\ wishlist.items[k].color = "blue"
  THEN 400
  ELSE 0

\* The wishlist after the push and wishlist.save() (Wishlist.create first
\* when the user has none; the new wishlist holds no item to reject).
WishlistWith(wishlist, p, size) ==
  [exists |-> TRUE, items |-> Append(wishlist.items, Wish(wishlist.n + 1, p, size)),
   v |-> wishlist.v + 1, n |-> wishlist.n + 1]

\* POST /api/v1/wishlist
AddToWishlist(u, p, size) ==
  /\ Accept
  /\ u \in Users => wishlists[u].n < MaxWishes
  /\ UNCHANGED <<products, carts, addresses, orders, req, tasks, serverUp>>
  /\ UNCHANGED <<reviews, dupCarts>>
  /\ UNCHANGED <<accounts, tokens>>
  /\ IF Gate("addToWishlist", u, FALSE) # Pass
     THEN resp' = Gate("addToWishlist", u, FALSE) /\ UNCHANGED wishlists
     ELSE IF AddToWishlistCheck(products[p], wishlists[u], p, size) # 0
     THEN /\ resp' = Resp("addToWishlist",
                          AddToWishlistCheck(products[p], wishlists[u], p, size))
          /\ UNCHANGED wishlists
     ELSE /\ wishlists' = [wishlists EXCEPT ![u] = WishlistWith(@, p, size)]
          /\ resp' = Resp("addToWishlist", 200)

\* The wishlist after the splice and wishlist.save().
WishlistWithout(wishlist, k) ==
  [wishlist EXCEPT !.items = Remove(@, k), !.v = @ + 1]

\* The checks of removeFromWishlist and moveToCart after Wishlist.findOne.
WishlistItemCheck(wishlist, id) ==
  IF ~wishlist.exists THEN 404
  ELSE IF WishIndex(wishlist.items, id) = 0 THEN 404
  ELSE 0

\* DELETE /api/v1/wishlist/:itemId
RemoveFromWishlist(u, id) ==
  /\ Accept
  /\ UNCHANGED <<products, carts, addresses, orders, req, tasks, serverUp>>
  /\ UNCHANGED <<reviews, dupCarts>>
  /\ UNCHANGED <<accounts, tokens>>
  /\ IF Gate("removeFromWishlist", u, FALSE) # Pass
     THEN resp' = Gate("removeFromWishlist", u, FALSE) /\ UNCHANGED wishlists
     ELSE IF WishlistItemCheck(wishlists[u], id) # 0
     THEN /\ resp' = Resp("removeFromWishlist", WishlistItemCheck(wishlists[u], id))
          /\ UNCHANGED wishlists
     ELSE /\ wishlists' = [wishlists EXCEPT
                             ![u] = WishlistWithout(@, WishIndex(@.items, id))]
          /\ resp' = Resp("removeFromWishlist", 200)

\* POST /api/v1/wishlist/:itemId/move-to-cart: Wishlist.findOne with the
\* products populated, the item lookup and the stock check.  A product that
\* is gone is populated as null and reading its stock throws.
MoveToCartBegin(r, u, id, quantity) ==
  /\ Accept
  /\ req[r] = Idle
  /\ UNCHANGED <<products, carts, addresses, orders, tasks, serverUp>>
  /\ UNCHANGED <<wishlists, reviews, dupCarts>>
  /\ UNCHANGED <<accounts, tokens>>
  /\ IF Gate("moveToCart", u, FALSE) # Pass
     THEN resp' = Gate("moveToCart", u, FALSE) /\ UNCHANGED req
     ELSE IF WishlistItemCheck(wishlists[u], id) # 0
     THEN /\ resp' = Resp("moveToCart", WishlistItemCheck(wishlists[u], id))
          /\ UNCHANGED req
     ELSE LET k == WishIndex(wishlists[u].items, id)
              item == wishlists[u].items[k]
          IN  IF ~products[item.product].exists
              THEN resp' = Resp("moveToCart", 500) /\ UNCHANGED req
              ELSE IF products[item.product].stock < quantity
              THEN resp' = Resp("moveToCart", 400) /\ UNCHANGED req
              ELSE /\ Park(r, [Idle EXCEPT
                          !.op = "moveToCart", !.pc = "findCart", !.user = u,
                          !.product = item.product, !.size = item.size,
                          !.qty = quantity, !.stock = products[item.product].stock,
                          !.wishlist = wishlists[u], !.wi = k,
                          !.csave = "pending", !.wsave = "pending"])
                   /\ UNCHANGED resp

\* moveToCart, Promise.all: cart.save().
MoveToCartSaveCart(r) ==
  /\ req[r].op = "moveToCart" /\ req[r].pc = "save" /\ req[r].csave = "pending"
  /\ UNCHANGED <<products, addresses, orders, tasks, serverUp, nreq, resp>>
  /\ UNCHANGED <<wishlists, reviews>>
  /\ UNCHANGED <<accounts, tokens>>
  /\ LET u == req[r].user
         current == CartDoc(u, req[r].doc)
         saved == SavedCart(current, req[r].cart, req[r].items, req[r].i, req[r].kind)
     IN  IF \/ CartValidationError(req[r].items)
            \/ VersionError(current, req[r].cart, req[r].kind)
         THEN /\ Park(r, [req[r] EXCEPT !.csave = "error"])
              /\ UNCHANGED <<carts, dupCarts>>
         ELSE /\ carts' = WithCartDoc(u, req[r].doc, saved)[1]
              /\ dupCarts' = WithCartDoc(u, req[r].doc, saved)[2]
              /\ Park(r, [req[r] EXCEPT !.csave = "ok"])

\* The wishlist after moveToCart's wishlist.save(): the array as loaded
\* without the item, sent as a $set of the whole array.
SavedWishlist(current, loaded, k) ==
  [current EXCEPT !.items = Remove(loaded.items, k), !.v = @ + 1]

\* moveToCart, Promise.all: wishlist.save() of the spliced array.
MoveToCartSaveWishlist(r) ==
  /\ req[r].op = "moveToCart" /\ req[r].pc = "save" /\ req[r].wsave = "pending"
  /\ UNCHANGED <<products, carts, addresses, orders, tasks, serverUp, nreq, resp>>
  /\ UNCHANGED <<reviews, dupCarts>>
  /\ UNCHANGED <<accounts, tokens>>
  /\ LET u == req[r].user IN
     IF VersionError(wishlists[u], req[r].wishlist, "splice")
     THEN /\ Park(r, [req[r] EXCEPT !.wsave = "error"])
          /\ UNCHANGED wishlists
     ELSE /\ wishlists' = [wishlists EXCEPT
                             ![u] = SavedWishlist(@, req[r].wishlist, req[r].wi)]
          /\ Park(r, [req[r] EXCEPT !.wsave = "ok"])

\* moveToCart, after Promise.all: the 200, or the error of a save that threw.
MoveToCartRespond(r) ==
  /\ req[r].op = "moveToCart" /\ req[r].pc = "save"
  /\ req[r].csave # "pending" /\ req[r].wsave # "pending"
  /\ Respond(r, IF req[r].csave = "ok" /\ req[r].wsave = "ok" THEN 200 ELSE 500)
  /\ UNCHANGED <<products, carts, addresses, orders, tasks, serverUp, nreq>>
  /\ UNCHANGED <<wishlists, reviews, dupCarts>>
  /\ UNCHANGED <<accounts, tokens>>

\* ------------------------------------------------------ address handlers
\* The address list after addAddress: a default address, or the first one,
\* takes the default flag from the others; the address is pushed.
WithAddress(addrs, street, isDefault) ==
  IF isDefault \/ addrs = <<>>
  THEN Append([k \in DOMAIN addrs |-> [addrs[k] EXCEPT !.isDefault = FALSE]],
              Address(street, TRUE))
  ELSE Append(addrs, Address(street, FALSE))

\* POST /api/addresses: the limit check, then the push and user.save().
AddAddress(u, street, isDefault) ==
  /\ Accept
  /\ UNCHANGED <<products, carts, orders, req, tasks, serverUp>>
  /\ UNCHANGED <<wishlists, reviews, dupCarts>>
  /\ UNCHANGED <<accounts, tokens>>
  /\ IF Gate("addAddress", u, FALSE) # Pass
     THEN resp' = Gate("addAddress", u, FALSE) /\ UNCHANGED addresses
     ELSE IF Len(addresses[u]) >= MaxAddresses
     THEN resp' = Resp("addAddress", 400) /\ UNCHANGED addresses
     ELSE /\ addresses' = [addresses EXCEPT ![u] = WithAddress(@, street, isDefault)]
          /\ resp' = Resp("addAddress", 201)

\* The address list after deleteAddress: when the default address goes, the
\* first of the others becomes the default; the address is pulled.
WithoutAddress(addrs, k) ==
  LET others == DOMAIN addrs \ {k}
      first == CHOOSE i \in others : \A j \in others : i <= j
  IN  Remove(IF addrs[k].isDefault /\ Len(addrs) > 1
             THEN [addrs EXCEPT ![first].isDefault = TRUE]
             ELSE addrs, k)

\* DELETE /api/addresses/:id (k is the address's position, 0 for an id the
\* user does not have).
DeleteAddress(u, k) ==
  /\ Accept
  /\ UNCHANGED <<products, carts, orders, req, tasks, serverUp>>
  /\ UNCHANGED <<wishlists, reviews, dupCarts>>
  /\ UNCHANGED <<accounts, tokens>>
  /\ IF Gate("deleteAddress", u, FALSE) # Pass
     THEN resp' = Gate("deleteAddress", u, FALSE) /\ UNCHANGED addresses
     ELSE IF k \notin DOMAIN addresses[u]
     THEN resp' = Resp("deleteAddress", 404) /\ UNCHANGED addresses
     ELSE /\ addresses' = [addresses EXCEPT ![u] = WithoutAddress(@, k)]
          /\ resp' = Resp("deleteAddress", 200)

\* ------------------------------------------------------ product reviews
\* The ratings and comment lengths a review request may carry.
Ratings        == {0, 1, 5, 6}
CommentLengths == {1, 2, 250, 251}

\* Whether productController.js binds the name Order: its require list is
\* mongoose, Product, ErrorResponse, asyncHandler and path.
OrderImported == FALSE

\* Order.findOne({ user, orderStatus: 'Delivered', 'orderItems.product' }).
HasDeliveredOrder(u, p) ==
  \E k \in DOMAIN orders :
    /\ orders[k].user = u
    /\ orders[k].orderStatus = "Delivered"
    /\ QuantityOf(orders[k].orderItems, p) # 0

AlreadyReviewed(u, p) ==
  \E k \in DOMAIN reviews[p].reviews : reviews[p].reviews[k].user = u

RECURSIVE SumRatings(_)
SumRatings(rs) ==
  IF rs = <<>> THEN 0 ELSE Head(rs).rating + SumRatings(Tail(rs))

\* The review fields after the push: numOfReviews the length, ratings the
\* average (in hundredths).
Reviewed(rv, u, rating) ==
  LET rs == Append(rv.reviews, [user |-> u, rating |-> rating])
  IN  [reviews |-> rs, numOfReviews |-> Len(rs),
       ratings |-> (100 * SumRatings(rs)) \div Len(rs)]

\* createProductReview, the way to its response: the product lookup, the
\* Order.findOne (a ReferenceError while Order is unbound, answered 500 by
\* the error middleware), the purchase check, the rating and comment checks
\* and the check for an earlier review.
ReviewCheck(u, p, rating, len) ==
  IF ~products[p].exists THEN 404
  ELSE IF ~OrderImported THEN 500
  ELSE IF ~HasDeliveredOrder(u, p) THEN 403
  ELSE IF rating < 1 \/ rating > 5 THEN 400
  ELSE IF len < 2 \/ len > 250 THEN 400
  ELSE IF AlreadyReviewed(u, p) THEN 400
  ELSE 0

\* POST /api/v1/products/:id/reviews
CreateProductReview(u, p, rating, len) ==
  /\ Accept
  /\ UNCHANGED <<products, carts, addresses, orders, req, tasks, serverUp>>
  /\ UNCHANGED <<wishlists, dupCarts>>
  /\ UNCHANGED <<accounts, tokens>>
  /\ IF Gate("createProductReview", u, FALSE) # Pass
     THEN resp' = Gate("createProductReview", u, FALSE) /\ UNCHANGED reviews
     ELSE IF ReviewCheck(u, p, rating, len) # 0
     THEN /\ resp' = Resp("createProductReview", ReviewCheck(u, p, rating, len))
          /\ UNCHANGED reviews
     ELSE /\ reviews' = [reviews EXCEPT ![p] = Reviewed(@, u, rating)]
          /\ resp' = Resp("createProductReview", 200)

\* --------------------------------------------------------- auth handlers
\* config.adminEmail and config.adminPassword, as the README gives them.
AdminEmail    == Email("admin", "gmail.com", FALSE, FALSE)
AdminPassword == "Admin@123"

\* The role of a user created without one.
DefaultRole == "user"

\* register: allowedDomains, of the domains tried.
AllowedDomains == {"gmail.com"}

\* register: the least length of a name and of a password.
MinNameLength     == 3
MinPasswordLength == 8

\* The names and passwords tried: letters only and without repeated
\* characters, and with all four character classes and no blank, so that the
\* length decides.
Names     == {"Kid", "Al"}
Passwords == {AdminPassword, "Ab1!"}

\* register, the validation of name, e-mail and password: 400, or 0.
RegisterCheck(name, email, password) ==
  IF Len(name) < MinNameLength THEN 400
  ELSE IF email.domain \notin AllowedDomains THEN 400
  ELSE IF Len(password) < MinPasswordLength THEN 400
  ELSE 0

\* sendTokenResponse: jwt.sign({ id: user._id }).
Token(op, email) == [op |-> op, user |-> email]

\* What no auth handler touches.
AuthFrame ==
  UNCHANGED <<products, carts, addresses, orders, req, tasks, serverUp,
              wishlists, reviews, dupCarts>>

\* POST /api/v1/auth/register: the validation, User.findOne on the trimmed,
\* lower-cased e-mail, User.create without a role, the token.
Register(name, email, password) ==
  /\ Accept
  /\ AuthFrame
  /\ LET trimmedEmail == TrimLower(email) IN
     IF RegisterCheck(name, trimmedEmail, password) # 0
     THEN /\ resp' = Resp("register", RegisterCheck(name, trimmedEmail, password))
          /\ UNCHANGED <<accounts, tokens>>
     ELSE IF accounts[trimmedEmail].exists
     THEN /\ resp' = Resp("register", 400)
          /\ UNCHANGED <<accounts, tokens>>
     ELSE /\ accounts' = [accounts EXCEPT ![trimmedEmail] = Account(DefaultRole)]
          /\ tokens' = tokens \cup {Token("register", trimmedEmail)}
          /\ resp' = Resp("register", 201)

\* POST /api/v1/auth/admin/login: e-mail and password are compared with the
\* configured ones, then the user with the admin e-mail is found, or created
\* with role admin, and gets the token.
AdminLogin(email, password) ==
  /\ Accept
  /\ AuthFrame
  /\ IF email # AdminEmail \/ password # AdminPassword
     THEN /\ resp' = Resp("adminLogin", 401)
          /\ UNCHANGED <<accounts, tokens>>
     ELSE /\ accounts' = IF accounts[AdminEmail].exists THEN accounts
                         ELSE [accounts EXCEPT ![AdminEmail] = Account("admin")]
          /\ tokens' = tokens \cup {Token("adminLogin", AdminEmail)}
          /\ resp' = Resp("adminLogin", 200)

\* POST /api/v1/auth/google: verifyIdToken (it throws for a token Google did
\* not sign), then the user with the e-mail of the payload is found, or
\* created without a role, and gets the token.
GoogleAuth(email, verified) ==
  /\ Accept
  /\ AuthFrame
  /\ IF ~verified
     THEN /\ resp' = Resp("googleAuth", 500)
          /\ UNCHANGED <<accounts, tokens>>
     ELSE /\ accounts' = IF accounts[email].exists THEN accounts
                         ELSE [accounts EXCEPT ![email] = Account(DefaultRole)]
          /\ tokens' = tokens \cup {Token("googleAuth", email)}
          /\ resp' = Resp("googleAuth", 200)

\* ------------------------------------------------------- specifications
Callers == Users \cup {NoUser}

\* The request bodies Spec tries createOrder with: the default address and a
\* tracking number, a new address to be saved to the profile, without payment
\* info, and a saved address that does not exist.
Body(saved, id, new, pay, tn) ==
  [useSavedAddress |-> saved, addressId |-> id, newAddress |-> new,
   paymentInfo |-> pay, trackingNumber |-> tn]

OrderBodies ==
  {Body(FALSE, 0, NoAddress, "pay1", "TN1"),
   Body(FALSE, 0, [street |-> "office", saveAddress |-> TRUE], "", NoTracking),
   Body(TRUE, 9, NoAddress, "pay1", NoTracking)}

\* The steps of the createOrder and cancelOrder requests in flight.
OrderSteps(r) ==
  \/ CreateOrderReadCart(r)
  \/ CreateOrderPersist(r)
  \/ UpdateStockRead(r)
  \/ UpdateStockWrite(r)
  \/ CreateOrderClearCart(r)
  \/ CreateOrderEmailLookup(r)
  \/ CreateOrderEmail(r)
  \/ RestoreStockRead(r)
  \/ RestoreStockWrite(r)
  \/ CancelOrderSave(r)

\* Spec: one createOrder or cancelOrder request is in flight at a time, the
\* other handlers run between its steps; every handler of the order workflow
\* takes part.
Init == InitWith({TwoLineCart}, {OneLineCart})

AdminCallers   == {"admin", "u1", NoUser}
WebhookCallers == {"u1", NoUser}

Next ==
  \/ \E u \in Callers, body \in OrderBodies : CreateOrderBegin("r1", u, body)
  \/ \E u \in Callers, oid \in OrderIds : CancelOrderBegin("r1", u, oid)
  \/ CreateOrderSaveAddress("r1")
  \/ OrderSteps("r1")
  \/ \E u \in AdminCallers, oid \in OrderIds : UpdateOrderToDelivered(u, oid)
  \/ \E u \in AdminCallers, oid \in OrderIds, status \in OrderStatus :
       AdminUpdateOrder(u, oid, status)
  \/ \E k \in DOMAIN tasks : TaskRead(k)
  \/ \E k \in DOMAIN tasks : TaskWrite(k)
  \/ \E u \in WebhookCallers, secret \in Secrets, tn \in TrackingNumbers,
        status \in TrackingStatus : PostShippingWebhook(u, secret, tn, status)
  \/ \E u \in Callers, oid \in OrderIds : GetOrder(u, oid)
  \/ \E u \in Callers, oid \in OrderIds : GenerateOrderPdf(u, oid)
  \/ \E u \in Callers, oid \in OrderIds : GetOrderTracking(u, oid)

Spec == Init /\ [][Next]_vars

\* SpecRace: two createOrder / cancelOrder requests interleave at their
\* awaits, and an admin may delete a product in between.  The bodies: the
\* default address without tracking number, with and without payment info.
InitRace == InitWith({OneLineCart, TwoLineCart}, {NoCart, EmptiedCart, FullCart, DearCart})

RaceBodies ==
  {Body(FALSE, 0, NoAddress, "pay1", NoTracking),
   Body(FALSE, 0, NoAddress, "", NoTracking)}

NextRace ==
  \/ \E r \in Reqs, u \in Customers, body \in RaceBodies : CreateOrderBegin(r, u, body)
  \/ \E r \in Reqs, u \in Customers, oid \in OrderIds : CancelOrderBegin(r, u, oid)
  \/ \E r \in Reqs : OrderSteps(r)
  \/ \E p \in Products : DeleteProduct("admin", p)

SpecRace == InitRace /\ [][NextRace]_vars

\* SpecRoundTrip: one createOrder, then cancelOrder requests, one request at
\* a time and nothing else that touches stock.
NextRoundTrip ==
  \/ \E u \in Customers, body \in RaceBodies :
       orders = <<>> /\ CreateOrderBegin("r1", u, body)
  \/ \E u \in Users, oid \in OrderIds : CancelOrderBegin("r1", u, oid)
  \/ OrderSteps("r1")

SpecRoundTrip == InitRace /\ [][NextRoundTrip]_vars

\* SpecCartRace: addToCart and moveToCart requests of one customer interleave
\* at their awaits.  The customer starts without a cart, or with a cart of
\* one line, and with a wishlist of two items.
CartSteps(r) ==
  \/ FindCart(r)
  \/ CreateCart(r)
  \/ AddToCartSave(r)
  \/ MoveToCartSaveCart(r)
  \/ MoveToCartSaveWishlist(r)
  \/ MoveToCartRespond(r)

TwoWishes == Wishlist(<<Wish(1, "p1", "M"), Wish(2, "p2", "M")>>)

InitCartRace == InitOf({NoCart, OneLineCart}, {NoCart}, {TwoWishes})

RaceQuantities == {1, MaxQty}

NextCartRace ==
  \/ \E r \in Reqs, p \in Products, q \in RaceQuantities :
       AddToCartBegin(r, "u1", p, q, "M")
  \/ \E r \in Reqs, id \in WishIds, q \in RaceQuantities :
       MoveToCartBegin(r, "u1", id, q)
  \/ \E r \in Reqs : CartSteps(r)

SpecCartRace == InitCartRace /\ [][NextCartRace]_vars

\* The steps of a createOrder request in flight.
CreateOrderSteps(r) ==
  \/ CreateOrderReadCart(r)
  \/ CreateOrderPersist(r)
  \/ UpdateStockRead(r)
  \/ UpdateStockWrite(r)
  \/ CreateOrderClearCart(r)
  \/ CreateOrderEmailLookup(r)
  \/ CreateOrderEmail(r)

\* SpecCart: the handlers that write the cart, and createOrder, one request
\* at a time: a request begins when the one before it has been answered.
\* Quantities below 1 and a size the product does not have are among the
\* inputs.
ItemPositions == 0..MaxQty

InitCart == InitOf({NoCart, OneLineCart}, {NoCart}, {TwoWishes})

NextCart ==
  \/ \E p \in Products, q \in Quantities, size \in Sizes :
       AddToCartBegin("r1", "u1", p, q, size)
  \/ \E id \in WishIds, q \in Quantities : MoveToCartBegin("r1", "u1", id, q)
  \/ CartSteps("r1")
  \/ \E k \in ItemPositions, q \in Quantities :
       AllIdle /\ UpdateCartItem("u1", k, q)
  \/ \E k \in ItemPositions : AllIdle /\ RemoveFromCart("u1", k)
  \/ AllIdle /\ ClearCart("u1")
  \/ \E body \in RaceBodies : CreateOrderBegin("r1", "u1", body)
  \/ CreateOrderSteps("r1")

SpecCart == InitCart /\ [][NextCart]_vars

\* SpecShelf: the cart and the wishlist handlers and createOrder, one request
\* at a time, with and without an authenticated user.
WishCallers == {"u1", NoUser}
OneWish == Wishlist(<<Wish(1, "p1", "M")>>)

InitShelf == InitOf({NoCart, OneLineCart}, {NoCart}, {OneWish})

NextShelf ==
  \/ \E p \in Products : AddToCartBegin("r1", "u1", p, 1, "M")
  \/ \E u \in WishCallers, id \in WishIds : MoveToCartBegin("r1", u, id, 1)
  \/ CartSteps("r1")
  \/ \E k \in ItemPositions : AllIdle /\ UpdateCartItem("u1", k, MaxQty)
  \/ \E k \in ItemPositions : AllIdle /\ RemoveFromCart("u1", k)
  \/ AllIdle /\ ClearCart("u1")
  \/ \E u \in WishCallers, p \in Products, size \in WishSizes :
       AllIdle /\ AddToWishlist(u, p, size)
  \/ \E u \in WishCallers, id \in WishIds :
       AllIdle /\ RemoveFromWishlist(u, id)
  \/ \E body \in RaceBodies : CreateOrderBegin("r1", "u1", body)
  \/ CreateOrderSteps("r1")

SpecShelf == InitShelf /\ [][NextShelf]_vars

\* SpecReview: customers order, the admin marks orders delivered or deletes
\* a product, and customers and strangers post reviews.
ReviewCallers == {"u1", "u2", NoUser}

NextReview ==
  \/ \E body \in RaceBodies : CreateOrderBegin("r1", "u1", body)
  \/ CreateOrderSteps("r1")
  \/ \E oid \in OrderIds : UpdateOrderToDelivered("admin", oid)
  \/ \E p \in Products : DeleteProduct("admin", p)
  \/ \E u \in ReviewCallers, p \in Products, rating \in Ratings,
        len \in CommentLengths : CreateProductReview(u, p, rating, len)

SpecReview == Init /\ [][NextReview]_vars

\* SpecAddress: addAddress and deleteAddress run between the steps of a
\* createOrder request that ships to a new address and saves it, or to a new
\* address it does not save.
AddressBodies ==
  {Body(FALSE, 0, [street |-> "office", saveAddress |-> TRUE], "pay1", NoTracking),
   Body(FALSE, 0, [street |-> "hotel", saveAddress |-> FALSE], "pay1", NoTracking)}

AddressCallers   == {"u1", NoUser}
AddressPositions == 0..MaxAddresses

NextAddress ==
  \/ \E body \in AddressBodies : CreateOrderBegin("r1", "u1", body)
  \/ CreateOrderSaveAddress("r1")
  \/ CreateOrderSteps("r1")
  \/ \E u \in AddressCallers, isDefault \in BOOLEAN : AddAddress(u, "new", isDefault)
  \/ \E u \in AddressCallers, k \in AddressPositions : DeleteAddress(u, k)

SpecAddress == Init /\ [][NextAddress]_vars

\* SpecPrices: two customers with carts drawn from the same set order at the
\* same time; the request bodies carry no price fields, or a price of one
\* cent, or a shipping price of zero.
Priced(body, prices) == body @@ prices

PlainBody == Body(FALSE, 0, NoAddress, "pay1", NoTracking)

PricedBodies ==
  {PlainBody,
   Priced(PlainBody, [itemsPrice |-> 1, taxPrice |-> 0, shippingPrice |-> 0,
                      totalPrice |-> 1]),
   Priced(PlainBody, [itemsPrice |-> Price("p1"), taxPrice |-> Price("p1") \div TaxDivisor,
                      shippingPrice |-> 0,
                      totalPrice |-> Price("p1") + Price("p1") \div TaxDivisor])}

InitPrices == InitWith({OneLineCart, TwoLineCart}, {OneLineCart, TwoLineCart})

NextPrices ==
  \/ \E r \in Reqs, u \in Customers, body \in PricedBodies : CreateOrderBegin(r, u, body)
  \/ \E r \in Reqs : CreateOrderSteps(r)

SpecPrices == InitPrices /\ [][NextPrices]_vars

\* SpecLedger: the handlers that write stock or the order status, strictly
\* one after the other: a request begins when the one before it has been
\* answered and the stock updates it left detached have finished.
Quiet == AllIdle /\ tasks = <<>>

LedgerBodies == {Body(FALSE, 0, NoAddress, "pay1", "TN1")}

NextLedger ==
  \/ \E u \in Customers, body \in LedgerBodies :
       Quiet /\ CreateOrderBegin("r1", u, body)
  \/ CreateOrderSteps("r1")
  \/ \E u \in Customers, oid \in OrderIds : Quiet /\ CancelOrderBegin("r1", u, oid)
  \/ RestoreStockRead("r1")
  \/ RestoreStockWrite("r1")
  \/ CancelOrderSave("r1")
  \/ \E oid \in OrderIds : Quiet /\ UpdateOrderToDelivered("admin", oid)
  \/ \E oid \in OrderIds, status \in OrderStatus :
       Quiet /\ AdminUpdateOrder("admin", oid, status)
  \/ \E k \in DOMAIN tasks : TaskRead(k)
  \/ \E k \in DOMAIN tasks : TaskWrite(k)
  \/ \E tn \in TrackingNumbers, status \in TrackingStatus :
       Quiet /\ PostShippingWebhook("u1", Secret, tn, status)

SpecLedger == Init /\ [][NextLedger]_vars

\* SpecCancelRace: one order is placed and answered, then cancelOrder requests
\* for it, by its owner or the admin, interleave at their awaits.  Nothing else writes
\* stock, so all stock above what the order left is stock added back.
CancelCallers == {"u1", "u2", "admin"}

NextCancelRace ==
  \/ \E u \in Customers, body \in RaceBodies :
       /\ orders = <<>> /\ InFlight("createOrder") = 0
       /\ CreateOrderBegin("r1", u, body)
  \/ CreateOrderSteps("r1")
  \/ \E r \in Reqs, u \in CancelCallers, oid \in OrderIds :
       InFlight("createOrder") = 0 /\ CancelOrderBegin(r, u, oid)
  \/ \E r \in Reqs : RestoreStockRead(r)
  \/ \E r \in Reqs : RestoreStockWrite(r)
  \/ \E r \in Reqs : CancelOrderSave(r)

SpecCancelRace == InitRace /\ [][NextCancelRace]_vars

\* SpecAuth: register, googleAuth and adminLogin calls in any order, from an
\* empty User collection.  Google vouches for addresses in lower case.
GoogleEmails == {e \in AccountEmails : ~e.upper}

NextAuth ==
  \/ \E name \in Names, email \in Emails, password \in Passwords :
       Register(name, email, password)
  \/ \E email \in Emails, password \in Passwords : AdminLogin(email, password)
  \/ \E email \in GoogleEmails, verified \in BOOLEAN : GoogleAuth(email, verified)

SpecAuth == Init /\ [][NextAuth]_vars

\* ================================================================ claims

\* C1: an order's status changes only by Processing -> Shipped,
\* Shipped -> Delivered, Processing -> Cancelled or Shipped -> Cancelled,
\* whichever handler changes it.
LifecycleTransitions ==
  {<<"Processing", "Shipped">>, <<"Shipped", "Delivered">>,
   <<"Processing", "Cancelled">>, <<"Shipped", "Cancelled">>}

C1_StatusLifecycle ==
  [][\A k \in DOMAIN orders :
       orders'[k].orderStatus # orders[k].orderStatus
         => <<orders[k].orderStatus, orders'[k].orderStatus>> \in LifecycleTransitions]_vars

\* C2: nothing guards the stock decrement: the write of updateStock stores the
\* stock this request read minus the quantity, whatever the stock has become
\* since the read and since the stock check, so interleaved requests lose
\* each other's decrement or drive the stock below zero.
C2_StaleStockWrite ==
  [][\A r \in Reqs :
       (UpdateStockWrite(r) /\ products[req[r].items[req[r].i].product].exists)
         => products'[req[r].items[req[r].i].product].stock
              = req[r].val - req[r].items[req[r].i].quantity]_vars

\* C2, witness: two createOrder requests and nothing else have run, both
\* orders hold a product, and its stock is negative or is not the initial
\* stock minus the two quantities.
C2_LostOrNegativeStock ==
  /\ nreq = 2 /\ Len(orders) = 2 /\ AllIdle
  /\ \E p \in Products :
       /\ QuantityOf(orders[1].orderItems, p) > 0
       /\ QuantityOf(orders[2].orderItems, p) > 0
       /\ \/ products[p].stock < 0
          \/ products[p].stock # InitStock - QuantityOf(orders[1].orderItems, p)
                                           - QuantityOf(orders[2].orderItems, p)

\* The steps a createOrder request has logged when it is about to send the
\* email: cart read, every line checked, order persisted, one decrement per
\* item in item order, cart emptied.
ExpectedLog(items, oid) ==
  <<[ev |-> "cart", n |-> Len(items)], [ev |-> "check", n |-> Len(items)],
    [ev |-> "persist", n |-> oid]>>
  \o [k \in 1..Len(items) |-> [ev |-> "stock", n |-> items[k].quantity]]
  \o <<[ev |-> "clear", n |-> 0]>>

\* C3: a createOrder answered 201 has read the cart, found every line in
\* stock, persisted the order, decremented stock once per item, emptied the
\* cart (items = [], totalPrice = 0) and only then attempted the email, in this
\* order; and a request whose cart is empty or has a line that fails the stock
\* check ends in an error without persisting an order.
C3_CreateOrderSteps ==
  [][\A r \in Reqs :
       /\ (req[r].op = "createOrder" /\ req'[r] = Idle /\ resp'.status = 201)
            => /\ req[r].pc = "email"
               /\ req[r].oid \in DOMAIN orders
               /\ orders[req[r].oid].orderItems = req[r].items
               /\ req[r].log = ExpectedLog(req[r].items, req[r].oid)
       /\ CreateOrderClearCart(r)
            => /\ carts'[req[r].user].items = <<>>
               /\ carts'[req[r].user].totalPrice = 0
       /\ (/\ CreateOrderReadCart(r)
           /\ \/ carts[req[r].user].items = <<>>
              \/ ~LinesInStock(carts[req[r].user].items, products))
            => /\ orders' = orders
               /\ req'[r] = Idle
               /\ IsError(resp'.status)]_vars

\* C3, witness: a two-line cart has been ordered with 201: the order is
\* persisted, the stock of both products is decremented, the cart is empty.
C3_OrderPlaced ==
  /\ resp = Resp("createOrder", 201) /\ nreq = 1 /\ AllIdle /\ Len(orders) = 1
  /\ Len(orders[1].orderItems) = 2
  /\ carts[orders[1].user] = EmptiedCart
  /\ \A p \in Products :
       products[p].stock = InitStock - QuantityOf(orders[1].orderItems, p)

\* C4: createOrder does not roll back: when a request fails after its order
\* is persisted, the step that fails leaves the order in the collection as it
\* was, leaves every product's stock as the earlier decrements made it, and
\* the request has not cleared the cart and does not clear it.
C4_NoRollback ==
  [][\A r \in Reqs :
       (/\ req[r].op = "createOrder"
        /\ req[r].pc \in {"stockRead", "stockWrite", "clear", "email"}
        /\ req'[r] = Idle
        /\ IsError(resp'.status))
         => /\ req[r].oid \in DOMAIN orders'
            /\ orders' = orders
            /\ products' = products
            /\ carts' = carts
            /\ \A k \in DOMAIN req[r].log : req[r].log[k].ev # "clear"]_vars

\* C4, witness: a createOrder of a two-line cart and the deletion of the
\* second product have run and createOrder was answered 500: the order is
\* persisted and still Processing, the first product's stock is decremented,
\* the cart still holds both lines.
C4_OrderLeftBehind ==
  /\ resp = Resp("createOrder", 500) /\ nreq = 2 /\ AllIdle /\ Len(orders) = 1
  /\ orders[1].orderStatus = "Processing"
  /\ carts[orders[1].user] = TwoLineCart
  /\ orders[1].orderItems = TwoLineCart.items
  /\ products["p1"].stock = InitStock - MaxQty
  /\ ~products["p2"].exists

Frozen(order) ==
  <<order.user, order.orderItems, order.shippingInfo, order.paymentInfo,
    order.itemsPrice, order.taxPrice, order.shippingPrice, order.totalPrice>>

\* C6: no step of cancelOrder, updateOrderToDelivered, admin updateOrder or
\* the shipping webhook changes the user, orderItems, shippingInfo,
\* paymentInfo, itemsPrice, taxPrice, shippingPrice or totalPrice of an order
\* createOrder has persisted.
C6_OrderImmutable ==
  [][\A k \in DOMAIN orders :
       /\ k \in DOMAIN orders'
       /\ Frozen(orders'[k]) = Frozen(orders[k])]_vars

\* C6, witness: an order was created, moved to in_transit by the webhook and
\* then cancelled: its status and tracking status have changed, its frozen
\* fields are those createOrder gave it.
C6_ChangedOrderSameFields ==
  /\ resp = Resp("cancelOrder", 200) /\ nreq = 3 /\ Len(orders) = 1
  /\ orders[1].orderStatus = "Cancelled"
  /\ orders[1].trackingStatus = "in_transit"
  /\ Frozen(orders[1]) = Frozen(NewOrder(orders[1].user, orders[1].orderItems,
                                         orders[1].shippingInfo,
                                         orders[1].paymentInfo,
                                         orders[1].trackingNumber))

\* C7: with one createOrder and cancelOrder requests only, a cancelOrder
\* answered 200 has set the order to Cancelled; once every restoreStock of the
\* cancellation is done, and ever after, every product's stock is what it was
\* before createOrder; between the 201 and the cancellation it is that stock
\* minus the order's quantities.
C7_CancelRestoresStock ==
  /\ resp = Resp("cancelOrder", 200)
       => Len(orders) = 1 /\ orders[1].orderStatus = "Cancelled"
  /\ \A k \in DOMAIN orders :
       /\ (orders[k].orderStatus = "Cancelled" \/ req["r1"].pc = "save")
            => \A p \in Products : products[p].stock = InitStock
       /\ (orders[k].orderStatus = "Processing" /\ AllIdle)
            => \A p \in Products :
                 products[p].stock = InitStock - QuantityOf(orders[k].orderItems, p)

\* C7, witness: a two-line order was created and cancelled: it is Cancelled
\* and both products have their initial stock again.
C7_RoundTrip ==
  /\ resp = Resp("cancelOrder", 200) /\ nreq = 2 /\ Len(orders) = 1
  /\ orders[1].orderStatus = "Cancelled"
  /\ Len(orders[1].orderItems) = 2
  /\ \A p \in Products : products[p].stock = InitStock

\* C8 as stated: every cancelOrder by an authenticated user on a Delivered or
\* Cancelled order is answered 400 and changes neither the order nor any
\* stock.
C8_FinishedOrder400 ==
  [][\A u \in Users, oid \in DOMAIN orders :
       (/\ orders[oid].orderStatus \in {"Delivered", "Cancelled"}
        /\ CancelOrderBegin("r1", u, oid))
         => /\ resp' = Resp("cancelOrder", 400)
            /\ orders' = orders
            /\ products' = products]_vars

\* C8, amended: a cancelOrder on a Delivered or Cancelled order is answered
\* 400 when the caller is the order's owner or an admin and 401 when the
\* caller is another user; either way the request ends there and changes
\* neither the order nor any stock.
C8_FinishedOrderRejected ==
  [][\A u \in Users, oid \in DOMAIN orders :
       (/\ orders[oid].orderStatus \in {"Delivered", "Cancelled"}
        /\ CancelOrderBegin("r1", u, oid))
         => /\ resp' = Resp("cancelOrder",
                            IF orders[oid].user = u \/ Role(u) = "admin"
                            THEN 400 ELSE 401)
            /\ req' = req
            /\ orders' = orders
            /\ products' = products]_vars

\* C8, witness: an order was created and cancelled, and a second cancelOrder
\* was answered 400: the order is Cancelled and the stock is the initial one.
C8_CancelledTwice ==
  /\ resp = Resp("cancelOrder", 400) /\ nreq = 3 /\ AllIdle /\ Len(orders) = 1
  /\ orders[1].orderStatus = "Cancelled"
  /\ \A p \in Products : products[p].stock = InitStock

\* C9: a customer who does not own an order is answered 401 by getOrder and
\* generateOrderPdf, 404 by getOrderTracking and 401 by cancelOrder, which
\* ends there; none of them changes an order or a product.
C9_StrangerRejected ==
  [][\A u \in Customers, oid \in DOMAIN orders :
       orders[oid].user # u
         => /\ GetOrder(u, oid)
                 => /\ resp' = Resp("getOrder", 401)
                    /\ orders' = orders /\ products' = products
            /\ GenerateOrderPdf(u, oid)
                 => /\ resp' = Resp("generateOrderPdf", 401)
                    /\ orders' = orders /\ products' = products
            /\ GetOrderTracking(u, oid)
                 => /\ resp' = Resp("getOrderTracking", 404)
                    /\ orders' = orders /\ products' = products
            /\ CancelOrderBegin("r1", u, oid)
                 => /\ resp' = Resp("cancelOrder", 401) /\ req' = req
                    /\ orders' = orders /\ products' = products]_vars

\* C9, witness: cancelOrder has answered 401, which it does to a user who is
\* neither owner nor admin only; the order is still Processing and the stock
\* still the initial stock minus the order's quantities.
C9_StrangerCancelRejected ==
  /\ resp = Resp("cancelOrder", 401) /\ nreq = 2 /\ AllIdle /\ Len(orders) = 1
  /\ orders[1].orderStatus = "Processing"
  /\ \A p \in Products :
       products[p].stock = InitStock - QuantityOf(orders[1].orderItems, p)

\* C10 as stated: a webhook request without user authentication that carries
\* the right secret and the tracking number of an order is answered by
\* handleShippingWebhook and updates that order; a webhook request with
\* another secret is answered 401 and changes no order.
C10_WebhookSecretOnly ==
  [][\A tn \in TrackingNumbers, status \in TrackingStatus :
       /\ (FindByTracking(tn) # 0 /\ PostShippingWebhook(NoUser, Secret, tn, status))
            => /\ resp' = Resp("handleShippingWebhook", 200)
               /\ orders' = [orders EXCEPT ![FindByTracking(tn)] = TrackedOrder(@, status)]
       /\ \A u \in WebhookCallers, secret \in Secrets \ {Secret} :
            PostShippingWebhook(u, secret, tn, status)
              => resp'.status = 401 /\ orders' = orders]_vars

\* The request in slot r ends in this step with status 200.
Succeeds(r, op) ==
  req[r].op = op /\ req'[r] = Idle /\ resp' = Resp(op, 200)

\* C11 as stated: whatever the interleaving of addToCart and moveToCart
\* requests, a user has at most one cart document, the item of a request
\* answered 200 is a line of that cart, and no line of the cart disappears.
C11_OneCartPerUser ==
  [][/\ \A u \in Users : dupCarts'[u] = <<>>
     /\ \A r \in Reqs :
          (Succeeds(r, "addToCart") \/ Succeeds(r, "moveToCart"))
            => IndexOf(carts'[req[r].user].items, req[r].product, req[r].size) # 0
     /\ \A u \in Users : \A k \in DOMAIN carts[u].items :
          IndexOf(carts'[u].items, carts[u].items[k].product,
                  carts[u].items[k].size) # 0]_vars

\* A step of addToWishlist or removeFromWishlist.
WishlistOnlyStep ==
  \/ \E u \in WishCallers, p \in Products, size \in WishSizes : AddToWishlist(u, p, size)
  \/ \E u \in WishCallers, id \in WishIds : RemoveFromWishlist(u, id)

\* A step of addToCart, updateCartItem, removeFromCart, clearCart or
\* createOrder.
CartOnlyStep ==
  \/ \E p \in Products, q \in Quantities, size \in Sizes :
       AddToCartBegin("r1", "u1", p, q, size)
  \/ req["r1"].op = "addToCart" /\ CartSteps("r1")
  \/ \E k \in ItemPositions, q \in Quantities : UpdateCartItem("u1", k, q)
  \/ \E k \in ItemPositions : RemoveFromCart("u1", k)
  \/ ClearCart("u1")
  \/ \E body \in RaceBodies : CreateOrderBegin("r1", "u1", body)
  \/ CreateOrderSteps("r1")

\* A step of a moveToCart request past its first await.
MoveToCartStep == req["r1"].op = "moveToCart" /\ CartSteps("r1")

\* C12: a step of addToWishlist or removeFromWishlist leaves every cart as it
\* is, a step of addToCart, updateCartItem, removeFromCart, clearCart or
\* createOrder leaves every wishlist as it is, and among the cart and wishlist
\* handlers and createOrder only moveToCart writes both: a wishlist changes
\* only in a step of addToWishlist, removeFromWishlist or moveToCart, a cart
\* only in a step of a cart handler, createOrder or moveToCart.
C12_WishlistSeparate ==
  [][/\ WishlistOnlyStep => carts' = carts /\ dupCarts' = dupCarts
     /\ CartOnlyStep => wishlists' = wishlists
     /\ wishlists' # wishlists => WishlistOnlyStep \/ MoveToCartStep
     /\ (carts' # carts \/ dupCarts' # dupCarts)
          => CartOnlyStep \/ MoveToCartStep]_vars

\* C12, witness: the customer had a wishlist of one item and a cart of one
\* line and after an addToWishlist and a moveToCart of that second item the
\* cart holds a second line and the wishlist still holds the first item.
C12_MovedOneOfTwo ==
  /\ resp = Resp("moveToCart", 200) /\ nreq = 2 /\ AllIdle
  /\ wishlists["u1"].items = <<Wish(1, "p1", "M")>>
  /\ carts["u1"].items = <<Line("p1", 1), Line("p2", 1)>>

\* C13 as stated: when the two saves of a moveToCart request have ended, with
\* success or with an error, either both are persisted or neither is, and the
\* item is gone from the user's wishlist exactly when its quantity has been
\* saved to the cart.
C13_MoveToCartBothOrNeither ==
  \A r \in Reqs :
    (/\ req[r].op = "moveToCart"
     /\ req[r].csave # "pending" /\ req[r].wsave # "pending")
      => /\ req[r].csave = "ok" <=> req[r].wsave = "ok"
         /\ WishIndex(wishlists[req[r].user].items,
                      req[r].wishlist.items[req[r].wi].id) = 0
              <=> req[r].csave = "ok"

\* C14 as stated: a review request for an existing product adds the user's
\* review exactly when the user has a Delivered order holding the product,
\* the rating is in 1..5, the comment has 2..250 characters and the user has
\* not reviewed the product; without such an order it is answered 403 and
\* the product's reviews, numOfReviews and ratings stay.
C14_ReviewAfterDelivery ==
  [][\A u \in Customers, p \in Products, rating \in Ratings, len \in CommentLengths :
       (products[p].exists /\ CreateProductReview(u, p, rating, len))
         => /\ reviews'[p] = Reviewed(reviews[p], u, rating)
                 <=> /\ HasDeliveredOrder(u, p)
                     /\ rating \in 1..5 /\ len \in 2..250
                     /\ ~AlreadyReviewed(u, p)
            /\ reviews'[p] # reviews[p] => reviews'[p] = Reviewed(reviews[p], u, rating)
            /\ ~HasDeliveredOrder(u, p)
                 => /\ resp' = Resp("createProductReview", 403)
                    /\ reviews' = reviews]_vars

\* C15 as stated: no user ever has more than 4 saved addresses, whatever
\* addAddress, deleteAddress and createOrder requests with saveAddress have
\* run; addAddress for a user with 4 saved addresses is answered 400 and
\* leaves the list as it is, and so is a createOrder that asks to save a fifth.
C15_AtMostFourAddresses ==
  [][/\ \A u \in Users : Len(addresses'[u]) <= MaxAddresses
     /\ \A u \in Customers :
          Len(addresses[u]) >= MaxAddresses
            => /\ \A isDefault \in BOOLEAN :
                    AddAddress(u, "new", isDefault)
                      => resp' = Resp("addAddress", 400) /\ addresses' = addresses
               /\ \A body \in AddressBodies :
                    (body.newAddress.saveAddress /\ CreateOrderBegin("r1", u, body))
                      => /\ resp' = Resp("createOrder", 400)
                         /\ addresses' = addresses /\ req' = req]_vars

\* C16: an error of the email lookup or of sendEmail never fails the order:
\* the lookup step, thrown or not, changes no order, stock or cart and the
\* request goes on to its response; the response of a request whose order is
\* persisted and whose email was sent, failed to send or was never prepared
\* is 201, and the step changes no order, stock or cart.
C16_EmailNeverFailsOrder ==
  [][\A r \in Reqs :
       /\ CreateOrderEmailLookup(r)
            => /\ orders' = orders /\ products' = products /\ carts' = carts
               /\ resp' = resp
               /\ req'[r] = [req[r] EXCEPT !.pc = "email", !.mail = req'[r].mail]
       /\ CreateOrderEmail(r)
            => /\ resp' = Resp("createOrder", 201)
               /\ req[r].oid \in DOMAIN orders
               /\ orders[req[r].oid].orderItems = req[r].items
               /\ orders' = orders /\ products' = products /\ carts' = carts]_vars

\* C16, witness: the lookup for the email has thrown; the order is persisted
\* and still Processing, the cart is emptied, and the request stands before
\* its response.
C16_EmailFailed ==
  \E r \in Reqs :
    /\ req[r].op = "createOrder" /\ req[r].pc = "email" /\ req[r].mail = "failed"
    /\ req[r].oid \in DOMAIN orders
    /\ orders[req[r].oid].orderStatus = "Processing"
    /\ carts[req[r].user].items = <<>>

\* The price fields of an order.
PricesOf(order) ==
  [itemsPrice |-> order.itemsPrice, taxPrice |-> order.taxPrice,
   shippingPrice |-> order.shippingPrice, totalPrice |-> order.totalPrice]

\* C17: the prices Order.create stores are calculated from the cart the
\* request read, whatever price fields the request body carries: itemsPrice is
\* the sum of price x quantity over the cart lines, taxPrice a tenth of it,
\* shippingPrice 5.99 and totalPrice their sum; so two orders of identical
\* cart lines have identical prices.
C17_PricesFromCart ==
  [][\A r \in Reqs :
       CreateOrderPersist(r) /\ orders' # orders
         => LET o == orders'[Len(orders')] IN
            /\ o.orderItems = req[r].items
            /\ o.itemsPrice = SumLines(req[r].items)
            /\ o.taxPrice = o.itemsPrice \div TaxDivisor
            /\ o.shippingPrice = ShippingPrice
            /\ o.totalPrice = o.itemsPrice + o.taxPrice + o.shippingPrice
            /\ \A k \in DOMAIN orders :
                 orders[k].orderItems = o.orderItems => PricesOf(orders[k]) = PricesOf(o)]_vars

\* C17, witness: two customers with identical carts have each an order
\* persisted, by requests whose bodies differ in their price fields, none of
\* which are the prices of the order.
C17_TwoBodiesSamePrices ==
  \E r1, r2 \in Reqs :
    /\ req[r1].op = "createOrder" /\ req[r2].op = "createOrder"
    /\ req[r1].user # req[r2].user
    /\ req[r1].oid \in DOMAIN orders /\ req[r2].oid \in DOMAIN orders
    /\ req[r1].oid # req[r2].oid
    /\ req[r1].claimed # req[r2].claimed
    /\ req[r1].claimed # NoPrices /\ req[r2].claimed # NoPrices
    /\ orders[req[r1].oid].orderItems = orders[req[r2].oid].orderItems
    /\ PricesOf(orders[req[r1].oid]) # req[r1].claimed
    /\ PricesOf(orders[req[r2].oid]) # req[r2].claimed

\* A step that answers a cart-writing request of user u with success.
CartOpSucceeds(u) ==
  \/ \E r \in Reqs :
       /\ req[r].user = u
       /\ \/ Succeeds(r, "addToCart")
          \/ Succeeds(r, "moveToCart")
          \/ /\ req[r].op = "createOrder" /\ req'[r] = Idle
             /\ resp' = Resp("createOrder", 201)
  \/ \E k \in ItemPositions, q \in Quantities :
       UpdateCartItem(u, k, q) /\ resp'.status = 200
  \/ \E k \in ItemPositions : RemoveFromCart(u, k) /\ resp'.status = 200
  \/ ClearCart(u) /\ resp'.status = 200

\* C18 as stated: after every successful addToCart, updateCartItem,
\* removeFromCart, clearCart, moveToCart and createOrder the totalPrice of the
\* user's cart is the sum of price x quantity over its lines.
C18_TotalPriceIsSum ==
  [][\A u \in Customers :
       CartOpSucceeds(u) => carts'[u].totalPrice = SumLines(carts'[u].items)]_vars

\* C19 as stated: after a successful addToCart or moveToCart the cart line of
\* the request's product and size, with what the cart already held of it,
\* does not exceed the stock the request read; nor does the line a
\* successful updateCartItem has set.
C19_LineWithinStock ==
  [][/\ \A r \in Reqs :
          Succeeds(r, "addToCart") \/ Succeeds(r, "moveToCart")
            => LET items == carts'[req[r].user].items
                   k == IndexOf(items, req[r].product, req[r].size)
               IN  k # 0 => items[k].quantity <= req[r].stock
     /\ \A u \in Customers : \A k \in DOMAIN carts[u].items :
          \A q \in Quantities :
            UpdateCartItem(u, k, q) /\ resp'.status = 200
              => carts'[u].items[k].quantity
                   <= products[carts[u].items[k].product].stock]_vars

\* C20 as stated: every cart line and every order item has a quantity of at
\* least 1, no order has a negative itemsPrice, and no product has more stock
\* than it started with (orders only take stock away).
C20_QuantityAtLeastOne ==
  /\ \A u \in Users : \A k \in DOMAIN carts[u].items :
       carts[u].items[k].quantity >= 1
  /\ \A o \in DOMAIN orders :
       /\ \A k \in DOMAIN orders[o].orderItems :
            orders[o].orderItems[k].quantity >= 1
       /\ orders[o].itemsPrice >= 0
  /\ \A p \in Products : products[p].stock <= InitStock

\* The quantity of product p in the orders that are not Cancelled.
RECURSIVE OrderedQuantity(_, _)
OrderedQuantity(ords, p) ==
  IF ords = <<>> THEN 0
  ELSE (IF Head(ords).orderStatus = "Cancelled" THEN 0
        ELSE QuantityOf(Head(ords).orderItems, p))
       + OrderedQuantity(Tail(ords), p)

\* C21 as stated: between requests that do not interleave, the stock of every
\* product is its initial stock minus the quantity of the product in the
\* orders that are not Cancelled, and it is never negative.
C21_StockConserved ==
  /\ \A p \in Products : products[p].stock >= 0
  /\ Quiet => \A p \in Products :
                products[p].stock = InitStock - OrderedQuantity(orders, p)

\* C22 as stated: however the cancelOrder requests for one order interleave,
\* the quantities of the order are added back to the stock once: with one
\* order placed and nothing else writing stock, no product has more stock
\* than before the order.
C22_RestoredOnce ==
  \A p \in Products : products[p].stock <= InitStock

\* C23 as stated: an order whose orderStatus is Delivered has its deliveredAt
\* set, whichever of updateOrderToDelivered, admin updateOrder and
\* handleShippingWebhook made it Delivered.
C23_DeliveredHasDate ==
  \A o \in DOMAIN orders :
    orders[o].orderStatus = "Delivered" => orders[o].deliveredAt

\* C24 as stated: every token adminLogin has issued belongs to a user whose
\* role is admin, whatever register and googleAuth calls came before it.
C24_AdminTokenIsAdmin ==
  \A t \in tokens : t.op = "adminLogin" => accounts[t.user].role = "admin"

====
